---- MODULE Spec2Model ----
\* k-stability decision core of stable-matching-sim:
\*   preference kernel   (src/src/matching.c)
\*   verifier            (src/src/verification.c)
\*   existence engine    (src/src/existence.c)
\* The library is a set of pure entry points.  A behaviour is: a caller holds
\* a problem instance (Init) and performs one call of an entry point; the
\* call's arguments and its return value are recorded in the state.
EXTENDS Integers, Sequences, FiniteSets, TLC

VARIABLES inst,    \* problem_instance_t the caller holds
          op,      \* entry point that was called ("none" before the call)
          mu,      \* matching_t argument of the call (NullMatching if none)
          k,       \* k argument of the call
          ret,     \* boolean return value (for find_k_stable_matching: result != NULL)
          out,     \* matching returned by find_k_stable_matching (NullMatching if absent)
          fail_at, \* allocations that succeed before one fails (negative: none fails)
          heap_after, \* the same count as the call leaves it (negative: none fails any more)
          heap_blocks, \* the heap as the call leaves it: live blocks, bad frees, block handed out
          mu_alt,  \* second matching_t argument (count_improved_agents' alternative)
          val,     \* integer return value
          pref_args, \* agent_prefers' arguments: the agent's id, a and b
          rng_state, \* generators.c rng_state, as <<high 16 bits, low 16 bits>>
          gen_args,  \* the last generator call: function, sizes and seed
          gen_out,   \* the instance it returned (NullInstance for NULL)
          gen_calls, \* number of generator calls made so far
          enum_phase, \* the profile enumeration: "idle", "running" or "returned"
          enum_n,    \* its argument n
          enum_pos,  \* number of profiles it has completed
          current_preferences, \* benchmark.c current_preferences
          total_instances,     \* the caller's total_instances
          k_stable_count,      \* the caller's k_stable_count[1 .. n]
          engine_calls, \* the (instance, k) pairs passed to k_stable_matching_exists
          step_phase, \* the stepwise call: "idle", "running" or "returned"
          stack,     \* its call stack, innermost frame last
          work,      \* the matching_t the running routines work on
          rv,        \* value returned by the call that returned last
          deepest    \* largest agent_index the pruning search was entered with

core_vars == <<inst, op, mu, k, ret, out>>
alloc_vars == <<fail_at, heap_after, heap_blocks>>
kernel_vars == <<mu_alt, val, pref_args>>
gen_vars == <<rng_state, gen_args, gen_out, gen_calls>>
enum_vars == <<enum_phase, enum_n, enum_pos, current_preferences, total_instances,
               k_stable_count, engine_calls>>

step_vars == <<step_phase, stack, work, rv, deepest>>

vars == <<core_vars, alloc_vars, kernel_vars, gen_vars, enum_vars, step_vars>>

\* ------------------------------------------------------------------ bounds
\* largest number of agents of an instance
MaxN == 3
\* k arguments range over -KSlack .. n + KSlack
KSlack == 1
\* number of partners the one short-listed agent of an instance leaves out
MaxDrop == 1
\* the allocations of a call that may fail are the first MaxFail + 1
MaxFail == 2
\* generator seeds range over 0 .. MaxSeed
MaxSeed == 5
\* number of generator calls of a behaviour
MaxGenCalls == 2
\* number of agents of the largest instance handed to the dispatch
MaxDispatchN == 10

\* ------------------------------------------------------- program constants
\* the "unmatched" sentinel of matching_t.pairs
UNMATCHED == -1
\* get_agent_rank's "not found" value
NOT_FOUND == -1

HOUSE_ALLOCATION == "HOUSE_ALLOCATION"
MARRIAGE == "MARRIAGE"
ROOMMATES == "ROOMMATES"

\* a NULL matching_t* (argument or result)
NullMatching == [num_agents |-> 0, model |-> "NULL", pairs |-> << >>]

\* --------------------------------------------------------------- instances
RECURSIVE Ascending(_, _)
\* the ids lo .. hi in ascending order, as a sequence
Ascending(lo, hi) == IF lo > hi THEN << >> ELSE <<lo>> \o Ascending(lo + 1, hi)

\* the partners agent i may list, in the order the generators write them
\* before shuffling: all houses; the other gender; all other agents
Eligible(model, n, m, i) ==
    IF model = HOUSE_ALLOCATION THEN Ascending(0, n - 1)
    ELSE IF model = MARRIAGE
         THEN (IF i < m THEN Ascending(m, n - 1) ELSE Ascending(0, m - 1))
         ELSE Ascending(0, i - 1) \o Ascending(i + 1, n - 1)

\* the list base rotated left by r, read backwards when rev, as a C array
\* (generate_k_stable_exists_case: (i + j) % n,
\*  generate_k_stable_unlikely_case: (n - 1 - j + i) % n)
RotatedList(base, r, rev) ==
    LET len == Len(base)
    IN  [j \in 0..(len - 1) |->
            IF rev THEN base[((len - 1 - j + r) % len) + 1]
                   ELSE base[((j + r) % len) + 1]]

\* agent_t: id, preferences[0 .. num_preferences-1], num_preferences
Agent(i, prefs) ==
    [id |-> i, preferences |-> prefs, num_preferences |-> Cardinality(DOMAIN prefs)]

\* the array without its last d entries (an acceptance list that leaves out
\* the d least preferred partners)
Truncated(arr, d) ==
    LET len == Cardinality(DOMAIN arr)
    IN  [j \in 0..(len - 1 - d) |-> arr[j]]

\* problem_instance_t for a model, n agents, m men, where agent i lists its
\* eligible partners rotated by rot[i]; agent short (if any) leaves out its
\* last MaxDrop partners
Instance(model, n, m, rot, rev, short) ==
    [model |-> model, num_agents |-> n, num_men |-> m,
     agents |-> [i \in 0..(n - 1) |->
                    Agent(i, Truncated(RotatedList(Eligible(model, n, m, i), rot[i], rev),
                                       IF i = short THEN MaxDrop ELSE 0))]]

\* every instance of a model with n agents and m men
InstancesOf(model, n, m) ==
    { Instance(model, n, m, rot, rev, short) :
        rot \in { f \in [0..(n - 1) -> 0..(n - 1)] :
                    \A i \in 0..(n - 1) :
                        f[i] = 0 \/ f[i] < Len(Eligible(model, n, m, i)) },
        rev \in BOOLEAN,
        short \in (0 - 1)..(n - 1) }

\* the instances a caller may hold: 1 .. MaxN agents; in marriage at least
\* one man and one woman (generate_random_marriage rejects the rest)
Instances ==
    UNION { InstancesOf(HOUSE_ALLOCATION, n, 0) \cup InstancesOf(ROOMMATES, n, 0)
            \cup UNION { InstancesOf(MARRIAGE, n, m) : m \in 1..(n - 1) }
          : n \in 1..MaxN }

\* -------------------------------------------------------------- generators
\* a NULL problem_instance_t*
NullInstance == [model |-> "NULL", num_agents |-> 0, num_men |-> 0, agents |-> << >>]

\* a uint32_t is held as its two 16-bit halves <<high, low>>
\* 2^16, the weight of the high half
HALF == 65536

\* the uint32_t with value x, for 0 <= x < 2^31
Uint32(x) == <<x \div HALF, x % HALF>>

RECURSIVE Xor16(_, _, _)
\* a ^ b on the low bits bits of a and b
Xor16(a, b, bits) ==
    IF bits = 0 THEN 0
    ELSE (((a % 2) + (b % 2)) % 2) + 2 * Xor16(a \div 2, b \div 2, bits - 1)

\* x ^ y on uint32_t
BitXor(x, y) == <<Xor16(x[1], y[1], 16), Xor16(x[2], y[2], 16)>>

\* x << s on uint32_t, for 0 < s < 16 (the high bits are lost)
ShiftLeft(x, s) ==
    <<(((x[1] * (2 ^ s)) % HALF) + (x[2] \div (2 ^ (16 - s)))) % HALF, (x[2] * (2 ^ s)) % HALF>>

\* x >> s on uint32_t, for 16 <= s < 32
ShiftRight(x, s) == <<0, x[1] \div (2 ^ (s - 16))>>

\* x % m on uint32_t, for 0 < m < 2^15
ModUint32(x, m) == (((x[1] % m) * (HALF % m)) + (x[2] % m)) % m

\* generators.c xorshift32: the new rng_state (which is also the value returned)
xorshift32(state) ==
    CHOOSE r \in UNION { { BitXor(x2, ShiftLeft(x2, 5)) :
                             x2 \in { BitXor(x1, ShiftRight(x1, 17)) } } :
                         x1 \in { BitXor(state, ShiftLeft(state, 13)) } } : TRUE

RECURSIVE WarmUp(_, _)
\* generators.c rng_seed, lines 23-25: i calls of xorshift32 (the singleton
\* set gives the new state a value before the next call uses it)
WarmUp(state, i) ==
    IF i = 0 THEN state
    ELSE CHOOSE r \in { WarmUp(next, i - 1) : next \in { xorshift32(state) } } : TRUE

\* rng_seed that mixes the seed into the state it finds (rng_state ^= seed)
rng_seed_mixing(state, seed) == WarmUp(BitXor(state, Uint32(seed)), 10)

\* generators.c rng_seed (lcg_seed), called with rng_state = state: the
\* rng_state it leaves
rng_seed(state, seed) == WarmUp(IF seed = 0 THEN Uint32(1) ELSE Uint32(seed), 10)

\* array with the entries at i and j exchanged
Swapped(array, i, j) == [array EXCEPT ![i] = array[j], ![j] = array[i]]

RECURSIVE ShuffleFrom(_, _, _)
\* generators.c shuffle_array, the loop from index i down to 1; array is a
\* C array (a function on 0 .. n-1)
ShuffleFrom(array, i, state) ==
    IF i <= 0 THEN [array |-> array, rng_state |-> state]
    ELSE CHOOSE r \in UNION { { ShuffleFrom(swapped, i - 1, drawn) :
                                  swapped \in { Swapped(array, i, ModUint32(drawn, i + 1)) } } :
                              drawn \in { xorshift32(state) } } : TRUE

\* generators.c shuffle_array
shuffle_array(array, n, state) == ShuffleFrom(array, n - 1, state)

RECURSIVE ShuffledAgents(_, _, _, _, _, _)
\* the agent loops of the three random generators (generators.c lines 65-76,
\* 100-126, 148-163), from agent i on: each list is written in ascending
\* order and shuffled
ShuffledAgents(model, n, m, i, agents, state) ==
    IF i >= n THEN [agents |-> agents, rng_state |-> state]
    ELSE LET list == Eligible(model, n, m, i)
         IN  CHOOSE r \in { ShuffledAgents(model, n, m, i + 1,
                                           [agents EXCEPT ![i] = Agent(i, sh.array)],
                                           sh.rng_state) :
                            sh \in { shuffle_array([j \in 0..(Len(list) - 1) |-> list[j + 1]],
                                                   Len(list), state) } } : TRUE

\* the instance a random generator builds after seeding, and the rng_state
\* it leaves
SeededInstance(model, n, m, seed, state) ==
    LET g == ShuffledAgents(model, n, m, 0, [i \in 0..(n - 1) |-> Agent(i, << >>)],
                            rng_seed(state, seed))
    IN  [instance |-> [model |-> model, num_agents |-> n, num_men |-> m, agents |-> g.agents],
         rng_state |-> g.rng_state]

\* generators.c generate_random_house_allocation, called with rng_state = state
generate_random_house_allocation(num_agents, seed, state) ==
    IF num_agents <= 0 THEN [instance |-> NullInstance, rng_state |-> state]
    ELSE SeededInstance(HOUSE_ALLOCATION, num_agents, 0, seed, state)

\* generators.c generate_random_marriage, called with rng_state = state
generate_random_marriage(num_men, num_women, seed, state) ==
    IF num_men <= 0 \/ num_women <= 0 THEN [instance |-> NullInstance, rng_state |-> state]
    ELSE SeededInstance(MARRIAGE, num_men + num_women, num_men, seed, state)

\* generators.c generate_random_roommates, called with rng_state = state
generate_random_roommates(num_agents, seed, state) ==
    IF num_agents <= 0 THEN [instance |-> NullInstance, rng_state |-> state]
    ELSE SeededInstance(ROOMMATES, num_agents, 0, seed, state)

\* ------------------------------------------------------- preference kernel
\* matching.c get_agent_rank: first position of target_id, -1 if not listed
get_agent_rank(agent, target_id) ==
    LET hits == { i \in 0..(agent.num_preferences - 1) : agent.preferences[i] = target_id }
    IN  IF hits = {} THEN NOT_FOUND
        ELSE CHOOSE i \in hits : \A j \in hits : i <= j

\* matching.c agent_prefers
agent_prefers(agent, a, b) ==
    IF b = UNMATCHED THEN get_agent_rank(agent, a) # NOT_FOUND
    ELSE IF a = UNMATCHED THEN FALSE
    ELSE LET rank_a == get_agent_rank(agent, a)
             rank_b == get_agent_rank(agent, b)
         IN  IF rank_a = NOT_FOUND \/ rank_b = NOT_FOUND THEN FALSE
             ELSE rank_a < rank_b

\* matching.c count_improved_agents (both matchings and the instance non-NULL)
count_improved_agents(current, alternative, instance) ==
    Cardinality({ i \in 0..(instance.num_agents - 1) :
        LET current_partner == current.pairs[i]
            alternative_partner == alternative.pairs[i]
        IN  IF current_partner = UNMATCHED /\ alternative_partner = UNMATCHED THEN FALSE
            ELSE IF current_partner = UNMATCHED /\ alternative_partner # UNMATCHED THEN TRUE
            ELSE IF current_partner # UNMATCHED /\ alternative_partner # UNMATCHED
                 THEN agent_prefers(instance.agents[i], alternative_partner, current_partner)
                 ELSE FALSE })

\* matching.c is_valid_matching, lines 137-148: every partner is in range
\* and points back
SymmetricPairs(matching) ==
    \A i \in 0..(matching.num_agents - 1) :
        LET partner == matching.pairs[i]
        IN  partner # UNMATCHED =>
                /\ ~(partner < 0 \/ partner >= matching.num_agents)
                /\ matching.pairs[partner] = i

\* matching.c is_valid_matching, HOUSE_ALLOCATION case: no house twice
HouseConstraint(matching) ==
    \A i \in 0..(matching.num_agents - 1) :
        LET house == matching.pairs[i]
        IN  house # UNMATCHED =>
                /\ ~(house < 0 \/ house >= matching.num_agents)
                /\ \A j \in 0..(i - 1) : matching.pairs[j] # house

\* matching.c is_valid_matching, MARRIAGE case: partners of opposite gender
MarriageConstraint(matching, instance) ==
    \A i \in 0..(matching.num_agents - 1) :
        LET partner == matching.pairs[i]
            num_men == instance.num_men
        IN  partner # UNMATCHED => ((i < num_men) # (partner < num_men))

\* matching.c is_valid_matching
is_valid_matching(matching, instance) ==
    IF matching = NullMatching THEN FALSE
    ELSE IF matching.num_agents # instance.num_agents THEN FALSE
    ELSE IF ~SymmetricPairs(matching) THEN FALSE
    ELSE IF matching.model = HOUSE_ALLOCATION THEN HouseConstraint(matching)
    ELSE IF matching.model = MARRIAGE THEN MarriageConstraint(matching, instance)
    ELSE TRUE

\* ---------------------------------------------------------------- verifier
\* is_valid_alternative_matching with the threshold off by one: more than
\* coalition_size improved members are asked for
is_valid_alternative_matching_strict(current, instance, coalition, coalition_size) ==
    LET improved_in_coalition ==
            Cardinality({ i \in 0..(coalition_size - 1) :
                LET agent_id == coalition[i + 1]
                    current_partner == current.pairs[agent_id]
                    agent == instance.agents[agent_id]
                IN  \E j \in 0..(agent.num_preferences - 1) :
                        LET potential_partner == agent.preferences[j]
                        IN  /\ potential_partner # current_partner
                            /\ potential_partner # UNMATCHED
                            /\ (current_partner = UNMATCHED
                                \/ agent_prefers(agent, potential_partner, current_partner)) })
    IN  improved_in_coalition > coalition_size

\* verification.c is_valid_alternative_matching: every one of the first
\* coalition_size members has a listed partner, other than the current one,
\* that it prefers to the current one (or it is unmatched)
is_valid_alternative_matching(current, instance, coalition, coalition_size) ==
    LET improved_in_coalition ==
            Cardinality({ i \in 0..(coalition_size - 1) :
                LET agent_id == coalition[i + 1]
                    current_partner == current.pairs[agent_id]
                    agent == instance.agents[agent_id]
                IN  \E j \in 0..(agent.num_preferences - 1) :
                        LET potential_partner == agent.preferences[j]
                        IN  /\ potential_partner # current_partner
                            /\ potential_partner # UNMATCHED
                            /\ (current_partner = UNMATCHED
                                \/ agent_prefers(agent, potential_partner, current_partner)) })
    IN  improved_in_coalition >= coalition_size

RECURSIVE can_form_blocking_coalition(_, _, _, _, _)
\* verification.c can_form_blocking_coalition; coalition is a sequence, the
\* NULL coalition of the first call is << >>
can_form_blocking_coalition(matching, instance, kk, coalition, start_agent) ==
    LET coalition_size == Len(coalition)
        temp_coalition == IF coalition = << >> THEN Ascending(0, kk - 1) ELSE coalition
        can_block == /\ coalition_size >= kk
                     /\ is_valid_alternative_matching(matching, instance, temp_coalition, kk)
    IN  \/ can_block
        \/ \E agent \in start_agent..(instance.num_agents - 1) :
              /\ \A i \in 1..coalition_size : coalition[i] # agent
              /\ can_form_blocking_coalition(matching, instance, kk,
                                             Append(coalition, agent), agent + 1)

\* verification.c has_blocking_coalition
has_blocking_coalition(matching, instance, kk) ==
    can_form_blocking_coalition(matching, instance, kk, << >>, 0)

\* is_k_stable with the upper bound on k off by one (k >= n rejected)
is_k_stable_rejecting_n(matching, instance, kk) ==
    IF matching = NullMatching THEN FALSE
    ELSE IF kk <= 0 \/ kk >= instance.num_agents THEN FALSE
    ELSE ~has_blocking_coalition(matching, instance, kk)

\* verification.c is_k_stable
is_k_stable(matching, instance, kk) ==
    IF matching = NullMatching THEN FALSE
    ELSE IF kk <= 0 \/ kk > instance.num_agents THEN FALSE
    ELSE ~has_blocking_coalition(matching, instance, kk)

\* is_valid_blocking_coalition counting only agents that have a partner and
\* list a better one
is_valid_blocking_coalition_matched_only(matching, instance, coalition, coalition_size) ==
    LET improved_in_coalition ==
            Cardinality({ i \in 0..(coalition_size - 1) :
                LET agent_id == coalition[i + 1]
                    current_partner == matching.pairs[agent_id]
                    agent == instance.agents[agent_id]
                IN  \E j \in 0..(agent.num_preferences - 1) :
                        LET potential_partner == agent.preferences[j]
                        IN  /\ potential_partner # current_partner
                            /\ potential_partner # UNMATCHED
                            /\ current_partner # UNMATCHED
                            /\ agent_prefers(agent, potential_partner, current_partner) })
    IN  improved_in_coalition >= coalition_size

\* verification.c is_valid_blocking_coalition
is_valid_blocking_coalition(matching, instance, coalition, coalition_size) ==
    LET improved_in_coalition ==
            Cardinality({ i \in 0..(coalition_size - 1) :
                LET agent_id == coalition[i + 1]
                    current_partner == matching.pairs[agent_id]
                    agent == instance.agents[agent_id]
                IN  \E j \in 0..(agent.num_preferences - 1) :
                        LET potential_partner == agent.preferences[j]
                        IN  /\ potential_partner # current_partner
                            /\ potential_partner # UNMATCHED
                            /\ (current_partner = UNMATCHED
                                \/ agent_prefers(agent, potential_partner, current_partner)) })
    IN  improved_in_coalition >= coalition_size

RECURSIVE can_form_blocking_coalition_recursive(_, _, _, _, _)
\* verification.c can_form_blocking_coalition_recursive
can_form_blocking_coalition_recursive(matching, instance, kk, coalition, start_agent) ==
    LET coalition_size == Len(coalition)
        temp_coalition == IF coalition = << >> THEN Ascending(0, kk - 1) ELSE coalition
        can_block == /\ coalition_size >= kk
                     /\ is_valid_blocking_coalition(matching, instance, temp_coalition, kk)
    IN  \/ can_block
        \/ \E agent \in start_agent..(instance.num_agents - 1) :
              /\ \A i \in 1..coalition_size : coalition[i] # agent
              /\ can_form_blocking_coalition_recursive(matching, instance, kk,
                                                       Append(coalition, agent), agent + 1)

\* has_blocking_coalition_comprehensive looking at the coalition of the
\* first k agents only
has_blocking_coalition_comprehensive_first_k(matching, instance, kk) ==
    /\ kk <= instance.num_agents
    /\ is_valid_blocking_coalition(matching, instance, Ascending(0, kk - 1), kk)

\* verification.c has_blocking_coalition_comprehensive
has_blocking_coalition_comprehensive(matching, instance, kk) ==
    can_form_blocking_coalition_recursive(matching, instance, kk, << >>, 0)

\* verification.c is_k_stable_direct
is_k_stable_direct(matching, instance, kk) ==
    IF matching = NullMatching \/ kk <= 0 THEN FALSE
    ELSE ~has_blocking_coalition_comprehensive(matching, instance, kk)

\* ------------------------------------------- verifier, allocations counted
\* The heap argument of the operators below is the state of the allocator:
\* left is the number of allocations that still succeed before one fails (0
\* means the next malloc returns NULL, a negative value that no (further)
\* allocation fails), next the address the next block gets, live the blocks
\* allocated and not yet released, bad whether free was called on a block
\* that is not live.
\* the allocator at the start of a call of which allocation number left + 1
\* fails
Heap(left) == [left |-> left, next |-> 0, live |-> {}, bad |-> FALSE]

\* stdlib malloc as called at verification.c lines 48, 94, 253, 287 and
\* matching.c line 13: does this allocation succeed
malloc_succeeds(heap) == heap.left # 0

\* the heap after one more allocation; a block that was allocated has the
\* address heap.next
after_malloc(heap) ==
    IF malloc_succeeds(heap)
    THEN [heap EXCEPT !.left = IF @ > 0 THEN @ - 1 ELSE 0 - 1,
                      !.next = @ + 1,
                      !.live = @ \cup {heap.next}]
    ELSE [heap EXCEPT !.left = 0 - 1]

\* stdlib free as called at verification.c lines 60, 72, 106, 265, 299 and
\* matching.c line 32: the heap after free(block)
after_free(heap, block) ==
    [heap EXCEPT !.live = @ \ {block}, !.bad = @ \/ block \notin heap.live]

RECURSIVE can_form_blocking_coalition_heap(_, _, _, _, _, _)
RECURSIVE CoalitionLoop(_, _, _, _, _, _)
\* verification.c can_form_blocking_coalition, lines 79-112: the loop over
\* agent, from agent on; a failed malloc of new_coalition skips the agent,
\* and new_coalition is freed when the recursive call returns
CoalitionLoop(matching, instance, kk, coalition, agent, heap) ==
    IF agent >= instance.num_agents THEN [found |-> FALSE, heap |-> heap]
    ELSE IF \E i \in 1..Len(coalition) : coalition[i] = agent
    THEN CoalitionLoop(matching, instance, kk, coalition, agent + 1, heap)
    ELSE IF ~malloc_succeeds(heap)
    THEN CoalitionLoop(matching, instance, kk, coalition, agent + 1, after_malloc(heap))
    ELSE LET new_coalition == heap.next
             r == can_form_blocking_coalition_heap(matching, instance, kk,
                      Append(coalition, agent), agent + 1, after_malloc(heap))
             freed == after_free(r.heap, new_coalition)
         IN  IF r.found THEN [found |-> TRUE, heap |-> freed]
             ELSE CoalitionLoop(matching, instance, kk, coalition, agent + 1, freed)

\* verification.c can_form_blocking_coalition with its allocations: the
\* temp_coalition of a NULL coalition, the alternative matching, and one
\* new_coalition per agent tried
can_form_blocking_coalition_heap(matching, instance, kk, coalition, start_agent, heap) ==
    LET coalition_size == Len(coalition)
        needs_temp == coalition = << >>
        temp_block == heap.next
        heap1 == IF needs_temp THEN after_malloc(heap) ELSE heap
        alternative == heap1.next
        heap2 == after_malloc(heap1)
        FreeTemp(h) == IF needs_temp THEN after_free(h, temp_block) ELSE h
        temp_coalition == IF needs_temp THEN Ascending(0, kk - 1) ELSE coalition
    IN  IF coalition_size >= kk
        THEN IF needs_temp /\ ~malloc_succeeds(heap) THEN [found |-> FALSE, heap |-> heap1]
             ELSE IF ~malloc_succeeds(heap1)
             THEN [found |-> FALSE, heap |-> FreeTemp(heap2)]
             ELSE LET heap3 == FreeTemp(after_free(heap2, alternative))
                  IN  IF is_valid_alternative_matching(matching, instance, temp_coalition, kk)
                      THEN [found |-> TRUE, heap |-> heap3]
                      ELSE CoalitionLoop(matching, instance, kk, coalition, start_agent, heap3)
        ELSE CoalitionLoop(matching, instance, kk, coalition, start_agent, heap)

\* verification.c is_k_stable with its allocations: the result and the heap
\* the call leaves
is_k_stable_heap(matching, instance, kk, heap) ==
    IF matching = NullMatching THEN [ret |-> FALSE, heap |-> heap]
    ELSE IF kk <= 0 \/ kk > instance.num_agents THEN [ret |-> FALSE, heap |-> heap]
    ELSE LET r == can_form_blocking_coalition_heap(matching, instance, kk, << >>, 0, heap)
         IN  [ret |-> ~r.found, heap |-> r.heap]

RECURSIVE can_form_blocking_coalition_recursive_heap(_, _, _, _, _, _)
RECURSIVE CoalitionLoopRecursive(_, _, _, _, _, _)
\* verification.c can_form_blocking_coalition_recursive, lines 272-305: the
\* loop over agent, from agent on
CoalitionLoopRecursive(matching, instance, kk, coalition, agent, heap) ==
    IF agent >= instance.num_agents THEN [found |-> FALSE, heap |-> heap]
    ELSE IF \E i \in 1..Len(coalition) : coalition[i] = agent
    THEN CoalitionLoopRecursive(matching, instance, kk, coalition, agent + 1, heap)
    ELSE IF ~malloc_succeeds(heap)
    THEN CoalitionLoopRecursive(matching, instance, kk, coalition, agent + 1,
                                after_malloc(heap))
    ELSE LET new_coalition == heap.next
             r == can_form_blocking_coalition_recursive_heap(matching, instance, kk,
                      Append(coalition, agent), agent + 1, after_malloc(heap))
             freed == after_free(r.heap, new_coalition)
         IN  IF r.found THEN [found |-> TRUE, heap |-> freed]
             ELSE CoalitionLoopRecursive(matching, instance, kk, coalition, agent + 1, freed)

\* verification.c can_form_blocking_coalition_recursive with its allocations
can_form_blocking_coalition_recursive_heap(matching, instance, kk, coalition, start_agent, heap) ==
    LET coalition_size == Len(coalition)
        needs_temp == coalition = << >>
        temp_block == heap.next
        heap1 == IF needs_temp THEN after_malloc(heap) ELSE heap
        heap2 == IF needs_temp THEN after_free(heap1, temp_block) ELSE heap1
        temp_coalition == IF needs_temp THEN Ascending(0, kk - 1) ELSE coalition
    IN  IF coalition_size >= kk
        THEN IF needs_temp /\ ~malloc_succeeds(heap) THEN [found |-> FALSE, heap |-> heap1]
             ELSE IF is_valid_blocking_coalition(matching, instance, temp_coalition, kk)
             THEN [found |-> TRUE, heap |-> heap2]
             ELSE CoalitionLoopRecursive(matching, instance, kk, coalition, start_agent, heap2)
        ELSE CoalitionLoopRecursive(matching, instance, kk, coalition, start_agent, heap)

\* verification.c is_k_stable_direct with its allocations
is_k_stable_direct_heap(matching, instance, kk, heap) ==
    IF matching = NullMatching \/ kk <= 0 THEN [ret |-> FALSE, heap |-> heap]
    ELSE LET r == can_form_blocking_coalition_recursive_heap(matching, instance, kk,
                                                             << >>, 0, heap)
         IN  [ret |-> ~r.found, heap |-> r.heap]

\* -------------------------------------------------------- existence engine
\* matching.c create_matching (the allocation succeeds): everyone unmatched
create_matching(num_agents, model) ==
    IF num_agents <= 0 THEN NullMatching
    ELSE [num_agents |-> num_agents, model |-> model,
          pairs |-> [i \in 0..(num_agents - 1) |-> UNMATCHED]]

\* pairs[a] = x; pairs[b] = y
SetPairs(matching, a, x, b, y) ==
    [matching EXCEPT !.pairs = [@ EXCEPT ![a] = x, ![b] = y]]

\* existence.c estimate_blocking_potential
estimate_blocking_potential(matching, instance) ==
    Cardinality({ i \in 0..(instance.num_agents - 1) :
        LET current_partner == matching.pairs[i]
        IN  IF current_partner = UNMATCHED THEN TRUE
            ELSE get_agent_rank(instance.agents[i], current_partner) > 2 })

\* is_promising_partial_matching pruning only above k
is_promising_partial_matching_above_k(partial_matching, instance, kk, agents_processed) ==
    LET blocking_potential == estimate_blocking_potential(partial_matching, instance)
        remaining_agents == instance.num_agents - agents_processed
        unmatched_count == Cardinality({ i \in 0..(agents_processed - 1) :
                                            partial_matching.pairs[i] = UNMATCHED })
    IN  IF blocking_potential > kk THEN FALSE
        ELSE IF unmatched_count + remaining_agents >= kk * 2 THEN remaining_agents > 0
        ELSE TRUE

\* existence.c is_promising_partial_matching
is_promising_partial_matching(partial_matching, instance, kk, agents_processed) ==
    LET blocking_potential == estimate_blocking_potential(partial_matching, instance)
        remaining_agents == instance.num_agents - agents_processed
        unmatched_count == Cardinality({ i \in 0..(agents_processed - 1) :
                                            partial_matching.pairs[i] = UNMATCHED })
    IN  IF blocking_potential >= kk THEN FALSE
        ELSE IF unmatched_count + remaining_agents >= kk * 2 THEN remaining_agents > 0
        ELSE TRUE

\* existence.c is_partial_matching_valid
is_partial_matching_valid(matching, instance, up_to_agent) ==
    \A i \in 0..up_to_agent :
        LET partner == matching.pairs[i]
        IN  partner # UNMATCHED =>
                /\ matching.pairs[partner] = i
                /\ ~(partner < 0 \/ partner >= instance.num_agents)

\* the gender test of the existence engine (existence.c lines 96-102,
\* 292-298, 368-374, 465-474): TRUE when the pair must be skipped
SameGenderByHalf(instance, a, b) ==
    /\ instance.model = MARRIAGE
    /\ LET num_men == instance.num_agents \div 2
       IN  (a < num_men /\ b < num_men) \/ (a >= num_men /\ b >= num_men)

\* existence.c find_k_stable_matching_recursive, lines 78-105:
\* potential_partners[0 .. num_potential-1] as a sequence
PotentialPartners(instance, current_matching, agent_index) ==
    LET agent == instance.agents[agent_index]
        prefs == [j \in 1..agent.num_preferences |-> agent.preferences[j - 1]]
        Keep(partner) == /\ partner # agent_index
                         /\ current_matching.pairs[partner] = UNMATCHED
                         /\ ~SameGenderByHalf(instance, agent_index, partner)
    IN  SelectSeq(prefs, Keep)

RECURSIVE find_k_stable_matching_recursive(_, _, _, _)
RECURSIVE TryPartners(_, _, _, _, _, _)
\* existence.c find_k_stable_matching_recursive, lines 107-133: the loop over
\* potential_partners from position i on, then the "leave unmatched" branch.
\* Returns the result and the working matching as the call leaves it.
TryPartners(instance, kk, current_matching, agent_index, partners, i) ==
    IF i > Len(partners)
    THEN IF instance.model = HOUSE_ALLOCATION \/ instance.model = ROOMMATES
         THEN find_k_stable_matching_recursive(instance, kk, current_matching, agent_index + 1)
         ELSE [found |-> FALSE, matching |-> current_matching]
    ELSE LET partner == partners[i]
             tried == SetPairs(current_matching, agent_index, partner, partner, agent_index)
             sub == IF is_partial_matching_valid(tried, instance, agent_index)
                    THEN find_k_stable_matching_recursive(instance, kk, tried, agent_index + 1)
                    ELSE [found |-> FALSE, matching |-> tried]
         IN  IF sub.found THEN sub
             ELSE TryPartners(instance, kk,
                              SetPairs(sub.matching, agent_index, UNMATCHED, partner, UNMATCHED),
                              agent_index, partners, i + 1)

\* existence.c find_k_stable_matching_recursive
find_k_stable_matching_recursive(instance, kk, current_matching, agent_index) ==
    IF agent_index >= instance.num_agents
    THEN [found |-> is_k_stable_direct(current_matching, instance, kk),
          matching |-> current_matching]
    ELSE IF ~is_promising_partial_matching(current_matching, instance, kk, agent_index)
    THEN [found |-> FALSE, matching |-> current_matching]
    ELSE IF current_matching.pairs[agent_index] # UNMATCHED
    THEN find_k_stable_matching_recursive(instance, kk, current_matching, agent_index + 1)
    ELSE TryPartners(instance, kk, current_matching, agent_index,
                     PotentialPartners(instance, current_matching, agent_index), 1)

\* existence.c find_k_stable_with_pruning
find_k_stable_with_pruning(instance, kk) ==
    LET matching == create_matching(instance.num_agents, instance.model)
    IN  IF matching = NullMatching THEN FALSE
        ELSE find_k_stable_matching_recursive(instance, kk, matching, 0).found

\* existence.c find_k_stable_matching: the witness, or NullMatching
find_k_stable_matching(instance, kk) ==
    IF kk <= 0 \/ kk > instance.num_agents THEN NullMatching
    ELSE LET matching == create_matching(instance.num_agents, instance.model)
         IN  IF matching = NullMatching THEN NullMatching
             ELSE LET r == find_k_stable_matching_recursive(instance, kk, matching, 0)
                  IN  IF r.found THEN r.matching ELSE NullMatching

\* existence.c k_stable_matching_exists_small_k, lines 284-309: the partner
\* agent i is matched to (the first listed one that is in range, free, not i,
\* of the other gender, and ranks i in the top half of its list), or UNMATCHED
SmallKPartner(instance, used, i) ==
    LET agent == instance.agents[i]
        ok == { pref_idx \in 0..(agent.num_preferences - 1) :
                  LET preferred == agent.preferences[pref_idx]
                  IN  /\ ~(preferred >= instance.num_agents)
                      /\ ~used[preferred]
                      /\ preferred # i
                      /\ ~SameGenderByHalf(instance, i, preferred)
                      /\ LET reverse_rank == get_agent_rank(instance.agents[preferred], i)
                         IN  /\ reverse_rank # NOT_FOUND
                             /\ reverse_rank < instance.agents[preferred].num_preferences \div 2 }
    IN  IF ok = {} THEN UNMATCHED
        ELSE agent.preferences[CHOOSE x \in ok : \A y \in ok : x <= y]

RECURSIVE SmallKGreedy(_, _, _, _)
\* existence.c k_stable_matching_exists_small_k, lines 278-310: the greedy
\* loop from agent i on
SmallKGreedy(instance, i, matching, used) ==
    IF i >= instance.num_agents THEN matching
    ELSE IF used[i] THEN SmallKGreedy(instance, i + 1, matching, used)
    ELSE LET preferred == SmallKPartner(instance, used, i)
         IN  IF preferred = UNMATCHED
             THEN SmallKGreedy(instance, i + 1, matching, used)
             ELSE SmallKGreedy(instance, i + 1,
                               SetPairs(matching, i, preferred, preferred, i),
                               [used EXCEPT ![i] = TRUE, ![preferred] = TRUE])

\* existence.c k_stable_matching_exists_small_k
k_stable_matching_exists_small_k(instance, kk) ==
    IF kk = 1 THEN TRUE
    ELSE IF kk <= 3
    THEN LET matching == create_matching(instance.num_agents, instance.model)
         IN  IF matching = NullMatching THEN FALSE
             ELSE is_k_stable_direct(
                      SmallKGreedy(instance, 0, matching,
                                   [a \in 0..(instance.num_agents - 1) |-> FALSE]),
                      instance, kk)
    ELSE find_k_stable_with_pruning(instance, kk)

RECURSIVE SortByPickiness(_, _, _, _)
\* existence.c k_stable_matching_exists_large_k, lines 343-352: the exchange
\* sort of agent_order, from the pair (i, j) on
SortByPickiness(instance, agent_order, i, j) ==
    IF i >= instance.num_agents - 1 THEN agent_order
    ELSE IF j >= instance.num_agents
    THEN SortByPickiness(instance, agent_order, i + 1, i + 2)
    ELSE IF instance.agents[agent_order[i]].num_preferences >
            instance.agents[agent_order[j]].num_preferences
    THEN SortByPickiness(instance,
                         [agent_order EXCEPT ![i] = agent_order[j], ![j] = agent_order[i]],
                         i, j + 1)
    ELSE SortByPickiness(instance, agent_order, i, j + 1)

\* existence.c k_stable_matching_exists_large_k, lines 360-385: as
\* SmallKPartner, with the top third of the partner's list
LargeKPartner(instance, used, agent_id) ==
    LET agent == instance.agents[agent_id]
        ok == { pref_idx \in 0..(agent.num_preferences - 1) :
                  LET preferred == agent.preferences[pref_idx]
                  IN  /\ ~(preferred >= instance.num_agents)
                      /\ ~used[preferred]
                      /\ preferred # agent_id
                      /\ ~SameGenderByHalf(instance, agent_id, preferred)
                      /\ LET reverse_rank == get_agent_rank(instance.agents[preferred], agent_id)
                         IN  /\ reverse_rank # NOT_FOUND
                             /\ reverse_rank < instance.agents[preferred].num_preferences \div 3 }
    IN  IF ok = {} THEN UNMATCHED
        ELSE agent.preferences[CHOOSE x \in ok : \A y \in ok : x <= y]

RECURSIVE LargeKGreedy(_, _, _, _, _)
\* existence.c k_stable_matching_exists_large_k, lines 354-386: the greedy
\* loop over agent_order from position idx on
LargeKGreedy(instance, agent_order, idx, matching1, used) ==
    IF idx >= instance.num_agents THEN matching1
    ELSE LET agent == agent_order[idx]
         IN  IF used[agent] THEN LargeKGreedy(instance, agent_order, idx + 1, matching1, used)
             ELSE LET preferred == LargeKPartner(instance, used, agent)
                  IN  IF preferred = UNMATCHED
                      THEN LargeKGreedy(instance, agent_order, idx + 1, matching1, used)
                      ELSE LargeKGreedy(instance, agent_order, idx + 1,
                                        SetPairs(matching1, agent, preferred, preferred, agent),
                                        [used EXCEPT ![agent] = TRUE, ![preferred] = TRUE])

\* existence.c k_stable_matching_exists_large_k; k > n * 0.9 is 10k > 9n
\* (the double product n * 0.9 rounds to the integer 9n/10 whenever that is
\* an integer, for every n <= MAX_AGENTS)
k_stable_matching_exists_large_k(instance, kk) ==
    LET matching1 == create_matching(instance.num_agents, instance.model)
    IN  IF matching1 = NullMatching THEN FALSE
        ELSE LET agent_order ==
                     SortByPickiness(instance, [i \in 0..(instance.num_agents - 1) |-> i], 0, 1)
                 greedy == LargeKGreedy(instance, agent_order, 0, matching1,
                                        [a \in 0..(instance.num_agents - 1) |-> FALSE])
             IN  IF is_k_stable_direct(greedy, instance, kk) THEN TRUE
                 ELSE IF 10 * kk > 9 * instance.num_agents THEN FALSE
                 ELSE find_k_stable_with_pruning(instance, kk)

\* k_stable_matching_exists with the small-k range cut at k_ratio < 0.1
k_stable_matching_exists_strict_ratio(instance, kk) ==
    IF kk <= 0 \/ kk > instance.num_agents THEN FALSE
    ELSE IF 10 * kk < instance.num_agents
    THEN k_stable_matching_exists_small_k(instance, kk)
    ELSE IF 5 * kk >= 4 * instance.num_agents
    THEN k_stable_matching_exists_large_k(instance, kk)
    ELSE find_k_stable_with_pruning(instance, kk)

\* existence.c k_stable_matching_exists; with k_ratio = (double)k / n,
\* k_ratio <= 0.1 is 10k <= n and k_ratio >= 0.8 is 5k >= 4n
k_stable_matching_exists(instance, kk) ==
    IF kk <= 0 \/ kk > instance.num_agents THEN FALSE
    ELSE IF 10 * kk <= instance.num_agents
    THEN k_stable_matching_exists_small_k(instance, kk)
    ELSE IF 5 * kk >= 4 * instance.num_agents
    THEN k_stable_matching_exists_large_k(instance, kk)
    ELSE find_k_stable_with_pruning(instance, kk)

RECURSIVE count_k_stable_matchings_recursive(_, _, _, _)
RECURSIVE CountPartners(_, _, _, _, _, _)
\* existence.c count_k_stable_matchings_recursive, lines 452-491: the loop
\* over partner, from partner on, with count so far, then the "leave
\* unmatched" branch. Returns the count and the working matching as the call
\* leaves it.
CountPartners(instance, kk, current_matching, agent_index, partner, count) ==
    IF partner >= instance.num_agents
    THEN IF instance.model = HOUSE_ALLOCATION \/ instance.model = ROOMMATES
         THEN LET sub == count_k_stable_matchings_recursive(instance, kk, current_matching,
                                                            agent_index + 1)
              IN  [count |-> count + sub.count, matching |-> sub.matching]
         ELSE [count |-> count, matching |-> current_matching]
    ELSE IF \/ partner = agent_index
            \/ current_matching.pairs[partner] # UNMATCHED
            \/ SameGenderByHalf(instance, agent_index, partner)
    THEN CountPartners(instance, kk, current_matching, agent_index, partner + 1, count)
    ELSE LET tried == SetPairs(current_matching, agent_index, partner, partner, agent_index)
             sub == count_k_stable_matchings_recursive(instance, kk, tried, agent_index + 1)
         IN  CountPartners(instance, kk,
                           SetPairs(sub.matching, agent_index, UNMATCHED, partner, UNMATCHED),
                           agent_index, partner + 1, count + sub.count)

\* existence.c count_k_stable_matchings_recursive
count_k_stable_matchings_recursive(instance, kk, current_matching, agent_index) ==
    IF agent_index >= instance.num_agents
    THEN [count |-> IF is_k_stable_direct(current_matching, instance, kk) THEN 1 ELSE 0,
          matching |-> current_matching]
    ELSE IF current_matching.pairs[agent_index] # UNMATCHED
    THEN count_k_stable_matchings_recursive(instance, kk, current_matching, agent_index + 1)
    ELSE CountPartners(instance, kk, current_matching, agent_index, 0, 0)

\* existence.c count_k_stable_matchings
count_k_stable_matchings(instance, kk) ==
    IF kk <= 0 \/ kk > instance.num_agents THEN 0
    ELSE LET matching == create_matching(instance.num_agents, instance.model)
         IN  IF matching = NullMatching THEN 0
             ELSE count_k_stable_matchings_recursive(instance, kk, matching, 0).count

\* existence.c k_stable_matching_exists_efficient; k >= n * 0.8 is 5k >= 4n
k_stable_matching_exists_efficient(instance, kk) ==
    IF kk <= 0 \/ kk > instance.num_agents THEN FALSE
    ELSE IF kk <= 2 THEN k_stable_matching_exists_small_k(instance, kk)
    ELSE IF 5 * kk >= 4 * instance.num_agents
    THEN k_stable_matching_exists_large_k(instance, kk)
    ELSE k_stable_matching_exists(instance, kk)

\* ------------------------------------------ existence, allocations counted
\* matching.c create_matching with its allocation: NULL when malloc fails
create_matching_heap(num_agents, model, heap) ==
    IF num_agents <= 0 THEN [matching |-> NullMatching, block |-> 0 - 1, heap |-> heap]
    ELSE [matching |-> IF malloc_succeeds(heap) THEN create_matching(num_agents, model)
                       ELSE NullMatching,
          block |-> IF malloc_succeeds(heap) THEN heap.next ELSE 0 - 1,
          heap |-> after_malloc(heap)]

\* matching.c destroy_matching of the matching held in block (-1: NULL)
destroy_matching_heap(block, heap) ==
    IF block # 0 - 1 THEN after_free(heap, block) ELSE heap

RECURSIVE find_k_stable_matching_recursive_heap(_, _, _, _, _)
RECURSIVE TryPartnersHeap(_, _, _, _, _, _, _)
\* existence.c find_k_stable_matching_recursive, lines 107-133, with the
\* allocations of the leaf's is_k_stable_direct
TryPartnersHeap(instance, kk, current_matching, agent_index, partners, i, heap) ==
    IF i > Len(partners)
    THEN IF instance.model = HOUSE_ALLOCATION \/ instance.model = ROOMMATES
         THEN find_k_stable_matching_recursive_heap(instance, kk, current_matching,
                                                    agent_index + 1, heap)
         ELSE [found |-> FALSE, matching |-> current_matching, heap |-> heap]
    ELSE LET partner == partners[i]
             tried == SetPairs(current_matching, agent_index, partner, partner, agent_index)
             sub == IF is_partial_matching_valid(tried, instance, agent_index)
                    THEN find_k_stable_matching_recursive_heap(instance, kk, tried,
                                                               agent_index + 1, heap)
                    ELSE [found |-> FALSE, matching |-> tried, heap |-> heap]
         IN  IF sub.found THEN sub
             ELSE TryPartnersHeap(instance, kk,
                                  SetPairs(sub.matching, agent_index, UNMATCHED,
                                           partner, UNMATCHED),
                                  agent_index, partners, i + 1, sub.heap)

\* existence.c find_k_stable_matching_recursive with its allocations
find_k_stable_matching_recursive_heap(instance, kk, current_matching, agent_index, heap) ==
    IF agent_index >= instance.num_agents
    THEN LET r == is_k_stable_direct_heap(current_matching, instance, kk, heap)
         IN  [found |-> r.ret, matching |-> current_matching, heap |-> r.heap]
    ELSE IF ~is_promising_partial_matching(current_matching, instance, kk, agent_index)
    THEN [found |-> FALSE, matching |-> current_matching, heap |-> heap]
    ELSE IF current_matching.pairs[agent_index] # UNMATCHED
    THEN find_k_stable_matching_recursive_heap(instance, kk, current_matching,
                                               agent_index + 1, heap)
    ELSE TryPartnersHeap(instance, kk, current_matching, agent_index,
                         PotentialPartners(instance, current_matching, agent_index), 1, heap)

\* find_k_stable_with_pruning without its destroy_matching
find_k_stable_with_pruning_heap_keeping(instance, kk, heap) ==
    LET c == create_matching_heap(instance.num_agents, instance.model, heap)
    IN  IF c.matching = NullMatching THEN [ret |-> FALSE, heap |-> c.heap]
        ELSE LET r == find_k_stable_matching_recursive_heap(instance, kk, c.matching, 0, c.heap)
             IN  [ret |-> r.found, heap |-> r.heap]

\* existence.c find_k_stable_with_pruning with its allocations
find_k_stable_with_pruning_heap(instance, kk, heap) ==
    LET c == create_matching_heap(instance.num_agents, instance.model, heap)
    IN  IF c.matching = NullMatching THEN [ret |-> FALSE, heap |-> c.heap]
        ELSE LET r == find_k_stable_matching_recursive_heap(instance, kk, c.matching, 0, c.heap)
             IN  [ret |-> r.found, heap |-> destroy_matching_heap(c.block, r.heap)]

\* existence.c find_k_stable_matching with its allocations
find_k_stable_matching_heap(instance, kk, heap) ==
    IF kk <= 0 \/ kk > instance.num_agents
    THEN [matching |-> NullMatching, block |-> 0 - 1, heap |-> heap]
    ELSE LET c == create_matching_heap(instance.num_agents, instance.model, heap)
         IN  IF c.matching = NullMatching
             THEN [matching |-> NullMatching, block |-> 0 - 1, heap |-> c.heap]
             ELSE LET r == find_k_stable_matching_recursive_heap(instance, kk, c.matching,
                                                                 0, c.heap)
                  IN  IF r.found
                      THEN [matching |-> r.matching, block |-> c.block, heap |-> r.heap]
                      ELSE [matching |-> NullMatching, block |-> 0 - 1,
                            heap |-> destroy_matching_heap(c.block, r.heap)]

\* existence.c k_stable_matching_exists_small_k with its allocations
k_stable_matching_exists_small_k_heap(instance, kk, heap) ==
    IF kk = 1 THEN [ret |-> TRUE, heap |-> heap]
    ELSE IF kk <= 3
    THEN LET c == create_matching_heap(instance.num_agents, instance.model, heap)
         IN  IF c.matching = NullMatching THEN [ret |-> FALSE, heap |-> c.heap]
             ELSE LET r == is_k_stable_direct_heap(
                               SmallKGreedy(instance, 0, c.matching,
                                            [a \in 0..(instance.num_agents - 1) |-> FALSE]),
                               instance, kk, c.heap)
                  IN  [ret |-> r.ret, heap |-> destroy_matching_heap(c.block, r.heap)]
    ELSE find_k_stable_with_pruning_heap(instance, kk, heap)

\* existence.c k_stable_matching_exists_large_k with its allocations
k_stable_matching_exists_large_k_heap(instance, kk, heap) ==
    LET c == create_matching_heap(instance.num_agents, instance.model, heap)
    IN  IF c.matching = NullMatching THEN [ret |-> FALSE, heap |-> c.heap]
        ELSE LET agent_order ==
                     SortByPickiness(instance, [i \in 0..(instance.num_agents - 1) |-> i], 0, 1)
                 greedy == LargeKGreedy(instance, agent_order, 0, c.matching,
                                        [a \in 0..(instance.num_agents - 1) |-> FALSE])
                 r == is_k_stable_direct_heap(greedy, instance, kk, c.heap)
                 heap1 == destroy_matching_heap(c.block, r.heap)
             IN  IF r.ret THEN [ret |-> TRUE, heap |-> heap1]
                 ELSE IF 10 * kk > 9 * instance.num_agents THEN [ret |-> FALSE, heap |-> heap1]
                 ELSE find_k_stable_with_pruning_heap(instance, kk, heap1)

\* existence.c k_stable_matching_exists with its allocations
k_stable_matching_exists_heap(instance, kk, heap) ==
    IF kk <= 0 \/ kk > instance.num_agents THEN [ret |-> FALSE, heap |-> heap]
    ELSE IF 10 * kk <= instance.num_agents
    THEN k_stable_matching_exists_small_k_heap(instance, kk, heap)
    ELSE IF 5 * kk >= 4 * instance.num_agents
    THEN k_stable_matching_exists_large_k_heap(instance, kk, heap)
    ELSE find_k_stable_with_pruning_heap(instance, kk, heap)

\* -------------------------------------------------------- profile enumerator
\* the agent counts whose profiles are enumerated systematically:
\* benchmark_brute_force_small_instances starts its loop at n = 2 and
\* generate_all_preference_profiles enumerates only while n <= 3 (for n > 3
\* it samples random instances instead)
EnumSizes == 2..3

\* benchmark.c current_preferences (static, zero-initialised), on the rows
\* and columns the enumeration uses
ZeroPreferences == [agent \in 0..2 |-> [i \in 0..2 |-> 0]]

\* the counters of a run as benchmark_brute_force_small_instances hands them
\* over: total_instances = 0, k_stable_count[1..n] = 0; engine_calls is the
\* list of (instance, k) argument pairs k_stable_matching_exists was called
\* with, steps the list of these records after each completed profile
EnumStart(n, prefs) ==
    [current_preferences |-> prefs, total_instances |-> 0,
     k_stable_count |-> [kk \in 1..n |-> 0], engine_calls |-> << >>, steps |-> << >>]

\* benchmark.c process_complete_preference_profile, lines 474-486: the
\* instance filled from current_preferences
ProfileInstance(n, prefs) ==
    [model |-> HOUSE_ALLOCATION, num_agents |-> n, num_men |-> 0,
     agents |-> [agent \in 0..(n - 1) |-> Agent(agent, [i \in 0..(n - 1) |-> prefs[agent][i]])]]

RECURSIVE ExistenceLoop(_, _, _)
\* benchmark.c process_complete_preference_profile, lines 489-500: the loop
\* over k from kk on
ExistenceLoop(instance, kk, st) ==
    IF kk > instance.num_agents THEN st
    ELSE CHOOSE r \in { ExistenceLoop(instance, kk + 1, next) :
                        next \in { [st EXCEPT
                                      !.engine_calls = Append(@, [instance |-> instance, k |-> kk]),
                                      !.k_stable_count[kk] =
                                          IF k_stable_matching_exists(instance, kk)
                                          THEN @ + 1 ELSE @] } } : TRUE

\* benchmark.c process_complete_preference_profile (malloc succeeds)
process_complete_preference_profile(n, st) ==
    ExistenceLoop(ProfileInstance(n, st.current_preferences), 1, st)

\* the counters and the profile buffer of st, without the list of steps
Counters(st) ==
    [current_preferences |-> st.current_preferences, total_instances |-> st.total_instances,
     k_stable_count |-> st.k_stable_count, engine_calls |-> st.engine_calls]

\* benchmark.c swap, on two positions of one array
swap(arr, a, b) == [arr EXCEPT ![a] = arr[b], ![b] = arr[a]]

RECURSIVE generate_all_agent_permutations(_, _, _, _)
RECURSIVE generate_agent_permutation(_, _, _, _, _, _)
RECURSIVE PermutationLoop(_, _, _, _, _, _, _)
\* benchmark.c generate_all_agent_permutations: the state after the call;
\* agent_perm is the copy of base_perm the call works on
generate_all_agent_permutations(base_perm, n, agent_index, st) ==
    IF agent_index >= n
    THEN CHOOSE r \in { [counted EXCEPT !.steps = Append(@, Counters(counted))] :
                        counted \in { [processed EXCEPT !.total_instances = @ + 1] :
                                      processed \in { process_complete_preference_profile(n, st) } } }
                : TRUE
    ELSE LET agent_perm == [i \in 0..(n - 1) |-> base_perm[i]]
         IN  generate_agent_permutation(agent_perm, 0, n - 1, agent_index, n, st).st

\* benchmark.c generate_agent_permutation: the array arr as the call leaves
\* it, and the state after the call
generate_agent_permutation(arr, start, end, agent_index, n, st) ==
    IF start = end
    THEN [arr |-> arr,
          st |-> CHOOSE r \in { generate_all_agent_permutations(arr, n, agent_index + 1, stored) :
                                stored \in { [st EXCEPT !.current_preferences[agent_index] =
                                                [i \in 0..2 |-> IF i < n THEN arr[i] ELSE @[i]]] } }
                    : TRUE]
    ELSE PermutationLoop(arr, start, start, end, agent_index, n, st)

\* the loop without its second swap
PermutationLoop_no_backtrack(arr, start, i, end, agent_index, n, st) ==
    IF i > end THEN [arr |-> arr, st |-> st]
    ELSE CHOOSE r \in { PermutationLoop(inner.arr, start, i + 1, end, agent_index, n, inner.st) :
                        inner \in { generate_agent_permutation(swap(arr, start, i), start + 1,
                                                               end, agent_index, n, st) } } : TRUE

\* benchmark.c generate_agent_permutation, lines 461-465: the loop from i
\* on: swap, recurse, swap back
PermutationLoop(arr, start, i, end, agent_index, n, st) ==
    IF i > end THEN [arr |-> arr, st |-> st]
    ELSE CHOOSE r \in { PermutationLoop(swap(inner.arr, start, i), start, i + 1, end,
                                        agent_index, n, inner.st) :
                        inner \in { generate_agent_permutation(swap(arr, start, i), start + 1,
                                                               end, agent_index, n, st) } } : TRUE

\* benchmark.c generate_all_preference_profiles, lines 413-422 (n <= 3):
\* the state after the call, entered with the counters of EnumStart
generate_all_preference_profiles(n, prefs) ==
    generate_all_agent_permutations([i \in 0..(n - 1) |-> i], n, 0, EnumStart(n, prefs))

\* the runs of benchmark_brute_force_small_instances(3): n = 2 in a fresh
\* process, then n = 3 with the profile buffer the first run left
EnumRuns ==
    LET first == generate_all_preference_profiles(2, ZeroPreferences)
    IN  (2 :> first) @@ (3 :> generate_all_preference_profiles(3, first.current_preferences))

\* ------------------------------------------------------ the caller's inputs
\* matching_t values with pairs[0 .. cells-1] drawn from vals
MatchingsOver(num_agents, model, cells, vals) ==
    { [num_agents |-> num_agents, model |-> model, pairs |-> p] :
        p \in [0..(cells - 1) -> vals] }

\* the matchings of an instance that is_valid_matching accepts
WellFormedMatchings(instance) ==
    { m \in MatchingsOver(instance.num_agents, instance.model, instance.num_agents,
                          UNMATCHED..(instance.num_agents - 1)) :
        is_valid_matching(m, instance) }

\* matchings a caller may also pass: everyone holds the same value v (a
\* shared house, or an id out of range), or agent i holds (i + s) % n
ShapedMatchings(instance) ==
    LET n == instance.num_agents
    IN  { [num_agents |-> n, model |-> instance.model, pairs |-> [i \in 0..(n - 1) |-> v]] :
            v \in 0..n }
        \cup
        { [num_agents |-> n, model |-> instance.model,
           pairs |-> [i \in 0..(n - 1) |-> (i + s) % n]] : s \in 0..(n - 1) }

\* matchings whose num_agents differs from the instance's by one; the array
\* cells 0 .. n-1 the verifier reads hold the identity or UNMATCHED
MismatchedMatchings(instance) ==
    LET n == instance.num_agents
    IN  UNION { { [num_agents |-> na, model |-> instance.model,
                   pairs |-> [i \in 0..(IF na > n THEN na - 1 ELSE n - 1) |-> i]],
                  [num_agents |-> na, model |-> instance.model,
                   pairs |-> [i \in 0..(IF na > n THEN na - 1 ELSE n - 1) |-> UNMATCHED]] }
                : na \in { n + 1 } \cup (IF n > 1 THEN { n - 1 } ELSE {}) }

\* every matching argument of the verifier calls
InputMatchings(instance) ==
    WellFormedMatchings(instance) \cup ShapedMatchings(instance)
    \cup MismatchedMatchings(instance) \cup { NullMatching }

\* every k argument
KValues(instance) == (0 - KSlack)..(instance.num_agents + KSlack)

\* ------------------------------------------------------------ state machine
\* the generator state of a fresh process: static uint32_t rng_state = 1
GenInit ==
    /\ rng_state = Uint32(1)
    /\ gen_args = [fn |-> "none", n |-> 0, w |-> 0, seed |-> 0]
    /\ gen_out = NullInstance
    /\ gen_calls = 0

\* the heap of a process that has allocated nothing
NoBlocks == [live |-> {}, bad |-> FALSE, handed |-> 0 - 1]

\* no library call has been made
NoCall ==
    /\ op = "none"
    /\ mu = NullMatching
    /\ k = 0
    /\ ret = FALSE
    /\ out = NullMatching
    /\ fail_at = 0 - 1
    /\ heap_after = 0 - 1
    /\ heap_blocks = NoBlocks
    /\ mu_alt = NullMatching
    /\ val = 0
    /\ pref_args = [agent |-> 0, a |-> UNMATCHED, b |-> UNMATCHED]

\* no enumeration has been started; current_preferences is static storage
EnumInit ==
    /\ enum_phase = "idle"
    /\ enum_n = 0
    /\ enum_pos = 0
    /\ current_preferences = ZeroPreferences
    /\ total_instances = 0
    /\ k_stable_count = << >>
    /\ engine_calls = << >>

\* no call is running: empty call stack, no working matching
StepInit ==
    /\ step_phase = "idle"
    /\ stack = << >>
    /\ work = NullMatching
    /\ rv = FALSE
    /\ deepest = 0 - 1

Init ==
    /\ inst \in Instances
    /\ NoCall
    /\ GenInit
    /\ EnumInit
    /\ StepInit

\* a call of a boolean entry point that takes (matching, instance, k)
Call_is_k_stable ==
    /\ op = "none"
    /\ \E m \in InputMatchings(inst), kk \in KValues(inst) :
          /\ op' = "is_k_stable"
          /\ mu' = m
          /\ k' = kk
          /\ ret' = is_k_stable(m, inst, kk)
    /\ UNCHANGED <<inst, out>>
    /\ UNCHANGED <<alloc_vars, kernel_vars, gen_vars, enum_vars, step_vars>>

Call_is_k_stable_direct ==
    /\ op = "none"
    /\ \E m \in InputMatchings(inst), kk \in KValues(inst) :
          /\ op' = "is_k_stable_direct"
          /\ mu' = m
          /\ k' = kk
          /\ ret' = is_k_stable_direct(m, inst, kk)
    /\ UNCHANGED <<inst, out>>
    /\ UNCHANGED <<alloc_vars, kernel_vars, gen_vars, enum_vars, step_vars>>

Call_k_stable_matching_exists ==
    /\ op = "none"
    /\ \E kk \in KValues(inst) :
          /\ op' = "k_stable_matching_exists"
          /\ k' = kk
          /\ ret' = k_stable_matching_exists(inst, kk)
    /\ UNCHANGED <<inst, mu, out>>
    /\ UNCHANGED <<alloc_vars, kernel_vars, gen_vars, enum_vars, step_vars>>

Call_find_k_stable_matching ==
    /\ op = "none"
    /\ \E kk \in KValues(inst) :
          /\ op' = "find_k_stable_matching"
          /\ k' = kk
          /\ out' = find_k_stable_matching(inst, kk)
          /\ ret' = (out' # NullMatching)
    /\ UNCHANGED <<inst, mu>>
    /\ UNCHANGED <<alloc_vars, kernel_vars, gen_vars, enum_vars, step_vars>>

Call_k_stable_matching_exists_efficient ==
    /\ op = "none"
    /\ \E kk \in KValues(inst) :
          /\ op' = "k_stable_matching_exists_efficient"
          /\ k' = kk
          /\ ret' = k_stable_matching_exists_efficient(inst, kk)
    /\ UNCHANGED <<inst, mu, out>>
    /\ UNCHANGED <<alloc_vars, kernel_vars, gen_vars, enum_vars, step_vars>>

\* the two regime routines are public and are called directly with 1 <= k <= n
Call_k_stable_matching_exists_small_k ==
    /\ op = "none"
    /\ \E kk \in 1..inst.num_agents :
          /\ op' = "k_stable_matching_exists_small_k"
          /\ k' = kk
          /\ ret' = k_stable_matching_exists_small_k(inst, kk)
    /\ UNCHANGED <<inst, mu, out>>
    /\ UNCHANGED <<alloc_vars, kernel_vars, gen_vars, enum_vars, step_vars>>

Call_k_stable_matching_exists_large_k ==
    /\ op = "none"
    /\ \E kk \in 1..inst.num_agents :
          /\ op' = "k_stable_matching_exists_large_k"
          /\ k' = kk
          /\ ret' = k_stable_matching_exists_large_k(inst, kk)
    /\ UNCHANGED <<inst, mu, out>>
    /\ UNCHANGED <<alloc_vars, kernel_vars, gen_vars, enum_vars, step_vars>>

\* -------------------------------------- state machine: allocation failures
\* the matchings the calls under allocation failure are made with
AllocMatchings(instance) ==
    ShapedMatchings(instance) \cup { create_matching(instance.num_agents, instance.model) }

\* which allocation of a call fails: the first, ..., the (MaxFail + 1)-th, or
\* none
FailPoints == (0 - 1)..MaxFail

\* is_k_stable while malloc fails once
Fail_is_k_stable ==
    /\ op = "none"
    /\ \E m \in AllocMatchings(inst), kk \in 1..inst.num_agents, f \in FailPoints :
          LET r == is_k_stable_heap(m, inst, kk, Heap(f))
          IN  /\ op' = "is_k_stable"
              /\ mu' = m
              /\ k' = kk
              /\ fail_at' = f
              /\ ret' = r.ret
              /\ heap_after' = r.heap.left
              /\ heap_blocks' = [live |-> r.heap.live, bad |-> r.heap.bad, handed |-> 0 - 1]
    /\ UNCHANGED <<inst, out, kernel_vars, gen_vars, enum_vars, step_vars>>

\* is_k_stable_direct while malloc fails once
Fail_is_k_stable_direct ==
    /\ op = "none"
    /\ \E m \in AllocMatchings(inst), kk \in 1..inst.num_agents, f \in FailPoints :
          LET r == is_k_stable_direct_heap(m, inst, kk, Heap(f))
          IN  /\ op' = "is_k_stable_direct"
              /\ mu' = m
              /\ k' = kk
              /\ fail_at' = f
              /\ ret' = r.ret
              /\ heap_after' = r.heap.left
              /\ heap_blocks' = [live |-> r.heap.live, bad |-> r.heap.bad, handed |-> 0 - 1]
    /\ UNCHANGED <<inst, out, kernel_vars, gen_vars, enum_vars, step_vars>>

\* k_stable_matching_exists while malloc fails once
Fail_k_stable_matching_exists ==
    /\ op = "none"
    /\ \E kk \in 1..inst.num_agents, f \in FailPoints :
          LET r == k_stable_matching_exists_heap(inst, kk, Heap(f))
          IN  /\ op' = "k_stable_matching_exists"
              /\ k' = kk
              /\ fail_at' = f
              /\ ret' = r.ret
              /\ heap_after' = r.heap.left
              /\ heap_blocks' = [live |-> r.heap.live, bad |-> r.heap.bad, handed |-> 0 - 1]
    /\ UNCHANGED <<inst, mu, out, kernel_vars, gen_vars, enum_vars, step_vars>>

\* find_k_stable_matching while malloc fails once
Fail_find_k_stable_matching ==
    /\ op = "none"
    /\ \E kk \in 1..inst.num_agents, f \in FailPoints :
          LET r == find_k_stable_matching_heap(inst, kk, Heap(f))
          IN  /\ op' = "find_k_stable_matching"
              /\ k' = kk
              /\ fail_at' = f
              /\ out' = r.matching
              /\ ret' = (r.matching # NullMatching)
              /\ heap_after' = r.heap.left
              /\ heap_blocks' = [live |-> r.heap.live, bad |-> r.heap.bad, handed |-> r.block]
    /\ UNCHANGED <<inst, mu, kernel_vars, gen_vars, enum_vars, step_vars>>

NextAlloc ==
    \/ Fail_is_k_stable
    \/ Fail_is_k_stable_direct
    \/ Fail_k_stable_matching_exists
    \/ Fail_find_k_stable_matching

SpecAlloc == Init /\ [][NextAlloc]_vars

\* ---------------------------------------- state machine: preference kernel
\* pairs[i] = perm[i] for a permutation perm of 0 .. n-1 (every agent holds a
\* different object)
PermutationMatchings(instance) ==
    LET n == instance.num_agents
    IN  { [num_agents |-> n, model |-> instance.model, pairs |-> p] :
            p \in { f \in [0..(n - 1) -> 0..(n - 1)] :
                      \A i, j \in 0..(n - 1) : f[i] = f[j] => i = j } }

\* the partners agent_prefers is asked about: unmatched, every id, and one
\* id out of range
PartnerValues(instance) == UNMATCHED..instance.num_agents

Call_is_valid_matching ==
    /\ op = "none"
    /\ \E m \in InputMatchings(inst) \cup PermutationMatchings(inst) :
          /\ op' = "is_valid_matching"
          /\ mu' = m
          /\ ret' = is_valid_matching(m, inst)
    /\ UNCHANGED <<inst, k, out, alloc_vars, kernel_vars, gen_vars, enum_vars, step_vars>>

Call_count_improved_agents ==
    /\ op = "none"
    /\ \E current \in WellFormedMatchings(inst) \cup ShapedMatchings(inst),
          alternative \in AllocMatchings(inst) :
          /\ op' = "count_improved_agents"
          /\ mu' = current
          /\ mu_alt' = alternative
          /\ val' = count_improved_agents(current, alternative, inst)
    /\ UNCHANGED <<inst, k, ret, out, alloc_vars, pref_args, gen_vars, enum_vars, step_vars>>

Call_agent_prefers ==
    /\ op = "none"
    /\ \E i \in 0..(inst.num_agents - 1), a \in PartnerValues(inst), b \in PartnerValues(inst) :
          /\ op' = "agent_prefers"
          /\ pref_args' = [agent |-> i, a |-> a, b |-> b]
          /\ ret' = agent_prefers(inst.agents[i], a, b)
    /\ UNCHANGED <<inst, mu, k, out, alloc_vars, mu_alt, val, gen_vars, enum_vars, step_vars>>

NextKernel ==
    \/ Call_is_valid_matching
    \/ Call_count_improved_agents
    \/ Call_agent_prefers

SpecKernel == Init /\ [][NextKernel]_vars

\* ----------------------------------------------- state machine: generators
\* a process that only calls the generators, with sizes the generators
\* accept (at most MaxN agents)
InitGen ==
    /\ inst = NullInstance
    /\ NoCall
    /\ GenInit
    /\ EnumInit
    /\ StepInit

Call_generate_random_house_allocation ==
    /\ gen_calls < MaxGenCalls
    /\ \E n \in 1..MaxN, seed \in 0..MaxSeed :
          LET g == generate_random_house_allocation(n, seed, rng_state)
          IN  /\ gen_args' = [fn |-> "generate_random_house_allocation",
                              n |-> n, w |-> 0, seed |-> seed]
              /\ gen_out' = g.instance
              /\ rng_state' = g.rng_state
    /\ gen_calls' = gen_calls + 1
    /\ UNCHANGED <<core_vars, alloc_vars, kernel_vars, enum_vars, step_vars>>

Call_generate_random_marriage ==
    /\ gen_calls < MaxGenCalls
    /\ \E num_men \in 1..(MaxN - 1), num_women \in 1..(MaxN - 1), seed \in 0..MaxSeed :
          LET g == generate_random_marriage(num_men, num_women, seed, rng_state)
          IN  /\ num_men + num_women <= MaxN
              /\ gen_args' = [fn |-> "generate_random_marriage",
                              n |-> num_men, w |-> num_women, seed |-> seed]
              /\ gen_out' = g.instance
              /\ rng_state' = g.rng_state
    /\ gen_calls' = gen_calls + 1
    /\ UNCHANGED <<core_vars, alloc_vars, kernel_vars, enum_vars, step_vars>>

Call_generate_random_roommates ==
    /\ gen_calls < MaxGenCalls
    /\ \E n \in 1..MaxN, seed \in 0..MaxSeed :
          LET g == generate_random_roommates(n, seed, rng_state)
          IN  /\ gen_args' = [fn |-> "generate_random_roommates",
                              n |-> n, w |-> 0, seed |-> seed]
              /\ gen_out' = g.instance
              /\ rng_state' = g.rng_state
    /\ gen_calls' = gen_calls + 1
    /\ UNCHANGED <<core_vars, alloc_vars, kernel_vars, enum_vars, step_vars>>

NextGen ==
    \/ Call_generate_random_house_allocation
    \/ Call_generate_random_marriage
    \/ Call_generate_random_roommates

SpecGen == InitGen /\ [][NextGen]_vars

\* ------------------------------------------ state machine: profile enumerator
\* benchmark_brute_force_small_instances(3) in a process that does nothing
\* else; a step is one completed profile of the enumeration
InitEnum ==
    /\ inst = NullInstance
    /\ NoCall
    /\ GenInit
    /\ EnumInit
    /\ StepInit

\* benchmark_brute_force_small_instances, lines 335-353: the next n of the
\* loop, fresh counters, and the call of generate_all_preference_profiles
Call_generate_all_preference_profiles ==
    /\ enum_phase \in {"idle", "returned"}
    /\ LET n == IF enum_phase = "idle" THEN 2 ELSE enum_n + 1
       IN  /\ n \in EnumSizes
           /\ enum_n' = n
           /\ k_stable_count' = [kk \in 1..n |-> 0]
    /\ enum_phase' = "running"
    /\ enum_pos' = 0
    /\ total_instances' = 0
    /\ engine_calls' = << >>
    /\ UNCHANGED <<current_preferences, core_vars, alloc_vars, kernel_vars, gen_vars, step_vars>>

\* generate_all_agent_permutations, lines 431-436: the enumeration reaches
\* its next complete profile, processes it and counts it
Complete_profile ==
    /\ enum_phase = "running"
    /\ enum_pos < Len(EnumRuns[enum_n].steps)
    /\ LET st == EnumRuns[enum_n].steps[enum_pos + 1]
       IN  /\ current_preferences' = st.current_preferences
           /\ total_instances' = st.total_instances
           /\ k_stable_count' = st.k_stable_count
           /\ engine_calls' = st.engine_calls
    /\ enum_pos' = enum_pos + 1
    /\ UNCHANGED <<enum_phase, enum_n, core_vars, alloc_vars, kernel_vars, gen_vars, step_vars>>

\* generate_all_preference_profiles returns after the last profile
Return_generate_all_preference_profiles ==
    /\ enum_phase = "running"
    /\ enum_pos = Len(EnumRuns[enum_n].steps)
    /\ enum_phase' = "returned"
    /\ UNCHANGED <<enum_n, enum_pos, current_preferences, total_instances, k_stable_count,
                   engine_calls, core_vars, alloc_vars, kernel_vars, gen_vars, step_vars>>

NextEnum ==
    \/ Call_generate_all_preference_profiles
    \/ Complete_profile
    \/ Return_generate_all_preference_profiles

SpecEnum == InitEnum /\ [][NextEnum]_vars

\* ------------------------------------------- state machine: searches by step
\* One call of an existence entry point, run step by step with the call
\* stack made explicit.  A step is one iteration of an outer loop, one call
\* or one return; the counted inner loops over a preference list are taken
\* in one step through the operators above.
\* the instances the random generators return in a fresh process
GeneratedInstances ==
    { generate_random_house_allocation(n, seed, Uint32(1)).instance :
        n \in 1..MaxN, seed \in 0..MaxSeed }
    \cup { generate_random_roommates(n, seed, Uint32(1)).instance :
             n \in 1..MaxN, seed \in 0..MaxSeed }
    \cup UNION { { generate_random_marriage(m, n - m, seed, Uint32(1)).instance :
                     m \in 1..(n - 1), seed \in 0..MaxSeed } : n \in 2..MaxN }

\* generated marriage instances of MaxN + 1 agents, with every number of men
UnequalMarriages ==
    { generate_random_marriage(m, MaxN + 1 - m, 0, Uint32(1)).instance : m \in 1..MaxN }

\* the instances of the stepwise runs: generated ones of every size, and
\* every instance with fewer than MaxN agents (short lists included)
StepInstances ==
    GeneratedInstances \cup UnequalMarriages \cup { i \in Instances : i.num_agents < MaxN }

InitSteps ==
    /\ inst \in StepInstances
    /\ NoCall
    /\ GenInit
    /\ EnumInit
    /\ StepInit

\* the frame on top of the call stack, the stack below it, and the stack
\* with its top frame replaced
Top == stack[Len(stack)]
Popped == SubSeq(stack, 1, Len(stack) - 1)
WithTop(frame) == [stack EXCEPT ![Len(stack)] = frame]

\* bool used[MAX_AGENTS] = {false}
NoneUsed == [a \in 0..(inst.num_agents - 1) |-> FALSE]

\* a frame of find_k_stable_matching_recursive entered at agent_index while
\* the working matching is current_matching
SearchFrame(agent_index, current_matching) ==
    [fn |-> "find_k_stable_matching_recursive", pc |-> "entry",
     agent_index |-> agent_index, partners |-> << >>, i |-> 1,
     entered_with |-> current_matching]

\* a frame of count_k_stable_matchings_recursive entered at agent_index while
\* the working matching is current_matching
CountFrame(agent_index, current_matching) ==
    [fn |-> "count_k_stable_matchings_recursive", pc |-> "entry",
     agent_index |-> agent_index, partner |-> 0, count |-> 0,
     entered_with |-> current_matching]

\* a frame of can_form_blocking_coalition_recursive entered with coalition
\* and start_agent
CoalitionFrame(coalition, start_agent) ==
    [fn |-> "can_form_blocking_coalition_recursive", pc |-> "entry",
     coalition |-> coalition, start_agent |-> start_agent, agent |-> start_agent]

\* a frame of is_k_stable_direct(work, inst, k)
DirectFrame == [fn |-> "is_k_stable_direct", pc |-> "entry"]

\* the strategy k_stable_matching_exists(inst, kk) selects (existence.c
\* lines 19-37), "reject" for an invalid k
Strategy(kk) ==
    IF kk <= 0 \/ kk > inst.num_agents THEN "reject"
    ELSE IF 10 * kk <= inst.num_agents THEN "k_stable_matching_exists_small_k"
    ELSE IF 5 * kk >= 4 * inst.num_agents THEN "k_stable_matching_exists_large_k"
    ELSE "find_k_stable_with_pruning"

\* the call stack, working matching and deepest search index right after
\* the routine named target has been entered
Entered(target) ==
    IF target = "reject" THEN [stack |-> << >>, work |-> NullMatching, deepest |-> 0 - 1]
    ELSE IF target = "find_k_stable_with_pruning"
    THEN [stack |-> <<SearchFrame(0, create_matching(inst.num_agents, inst.model))>>,
          work |-> create_matching(inst.num_agents, inst.model), deepest |-> 0]
    ELSE [stack |-> <<[fn |-> target, pc |-> "entry"]>>, work |-> NullMatching,
          deepest |-> 0 - 1]

\* the caller calls one of the three boolean existence entry points
Call_existence_entry ==
    /\ step_phase = "idle"
    /\ \E fn \in {"k_stable_matching_exists", "k_stable_matching_exists_small_k",
                  "k_stable_matching_exists_large_k"}, kk \in KValues(inst) :
          LET e == Entered(IF fn = "k_stable_matching_exists" THEN Strategy(kk) ELSE fn)
          IN  /\ op' = fn
              /\ k' = kk
              /\ stack' = e.stack
              /\ work' = e.work
              /\ deepest' = e.deepest
    /\ step_phase' = "running"
    /\ rv' = FALSE
    /\ UNCHANGED <<inst, mu, ret, out, alloc_vars, kernel_vars, gen_vars, enum_vars>>

\* the effect of a step on the call stack, the working matching, the return
\* value register and the deepest search index
StepTo(next) ==
    /\ stack' = next.stack
    /\ work' = next.work
    /\ rv' = next.rv
    /\ deepest' = next.deepest
    /\ UNCHANGED <<step_phase, core_vars, alloc_vars, kernel_vars, gen_vars, enum_vars>>

\* the current values of what a step may change
Here == [stack |-> stack, work |-> work, rv |-> rv, deepest |-> deepest]

\* return value v to the calling frame
Return(v) == [Here EXCEPT !.stack = Popped, !.rv = v]

\* existence.c k_stable_matching_exists_small_k
Step_k_stable_matching_exists_small_k ==
    /\ step_phase = "running"
    /\ stack # << >>
    /\ Top.fn = "k_stable_matching_exists_small_k"
    /\ LET f == Top
           n == inst.num_agents
       IN  StepTo(
             IF f.pc = "entry"
             THEN IF k = 1 THEN Return(TRUE)
                  ELSE IF k <= 3
                  THEN [Here EXCEPT
                          !.work = create_matching(n, inst.model),
                          !.stack = WithTop([fn |-> f.fn, pc |-> "greedy", i |-> 0,
                                             used |-> NoneUsed])]
                  ELSE [Here EXCEPT
                          !.work = create_matching(n, inst.model),
                          !.stack = Append(WithTop([fn |-> f.fn, pc |-> "return"]),
                                           SearchFrame(0, create_matching(n, inst.model))),
                          !.deepest = 0]
             ELSE IF f.pc = "greedy"
             THEN IF f.i >= n
                  THEN [Here EXCEPT
                          !.stack = Append(WithTop([fn |-> f.fn, pc |-> "return"]), DirectFrame)]
                  ELSE LET preferred == IF f.used[f.i] THEN UNMATCHED
                                        ELSE SmallKPartner(inst, f.used, f.i)
                       IN  IF preferred = UNMATCHED
                           THEN [Here EXCEPT !.stack = WithTop([f EXCEPT !.i = @ + 1])]
                           ELSE [Here EXCEPT
                                   !.work = SetPairs(work, f.i, preferred, preferred, f.i),
                                   !.stack = WithTop([f EXCEPT
                                                        !.i = @ + 1,
                                                        !.used[f.i] = TRUE,
                                                        !.used[preferred] = TRUE])]
             ELSE Return(rv))

\* existence.c k_stable_matching_exists_large_k
Step_k_stable_matching_exists_large_k ==
    /\ step_phase = "running"
    /\ stack # << >>
    /\ Top.fn = "k_stable_matching_exists_large_k"
    /\ LET f == Top
           n == inst.num_agents
       IN  StepTo(
             IF f.pc = "entry"
             THEN [Here EXCEPT
                     !.work = create_matching(n, inst.model),
                     !.stack = WithTop([fn |-> f.fn, pc |-> "sort", i |-> 0, j |-> 1,
                                        agent_order |-> [a \in 0..(n - 1) |-> a],
                                        used |-> NoneUsed])]
             ELSE IF f.pc = "sort"
             THEN IF f.i >= n - 1
                  THEN [Here EXCEPT !.stack = WithTop([f EXCEPT !.pc = "greedy", !.i = 0])]
                  ELSE IF f.j >= n
                  THEN [Here EXCEPT !.stack = WithTop([f EXCEPT !.i = @ + 1, !.j = f.i + 2])]
                  ELSE IF inst.agents[f.agent_order[f.i]].num_preferences >
                          inst.agents[f.agent_order[f.j]].num_preferences
                  THEN [Here EXCEPT
                          !.stack = WithTop([f EXCEPT
                                               !.j = @ + 1,
                                               !.agent_order[f.i] = f.agent_order[f.j],
                                               !.agent_order[f.j] = f.agent_order[f.i]])]
                  ELSE [Here EXCEPT !.stack = WithTop([f EXCEPT !.j = @ + 1])]
             ELSE IF f.pc = "greedy"
             THEN IF f.i >= n
                  THEN [Here EXCEPT
                          !.stack = Append(WithTop([fn |-> f.fn, pc |-> "verified"]), DirectFrame)]
                  ELSE LET agent == f.agent_order[f.i]
                           preferred == IF f.used[agent] THEN UNMATCHED
                                        ELSE LargeKPartner(inst, f.used, agent)
                       IN  IF preferred = UNMATCHED
                           THEN [Here EXCEPT !.stack = WithTop([f EXCEPT !.i = @ + 1])]
                           ELSE [Here EXCEPT
                                   !.work = SetPairs(work, agent, preferred, preferred, agent),
                                   !.stack = WithTop([f EXCEPT
                                                        !.i = @ + 1,
                                                        !.used[agent] = TRUE,
                                                        !.used[preferred] = TRUE])]
             ELSE IF f.pc = "verified"
             THEN IF rv THEN Return(TRUE)
                  ELSE IF 10 * k > 9 * n THEN Return(FALSE)
                  ELSE [Here EXCEPT
                          !.work = create_matching(n, inst.model),
                          !.stack = Append(WithTop([fn |-> f.fn, pc |-> "return"]),
                                           SearchFrame(0, create_matching(n, inst.model))),
                          !.deepest = 0]
             ELSE Return(rv))

\* verification.c is_k_stable_direct, called on the working matching
Step_is_k_stable_direct ==
    /\ step_phase = "running"
    /\ stack # << >>
    /\ Top.fn = "is_k_stable_direct"
    /\ StepTo(
         IF Top.pc = "entry"
         THEN IF work = NullMatching \/ k <= 0 THEN Return(FALSE)
              ELSE [Here EXCEPT
                      !.stack = Append(WithTop([fn |-> Top.fn, pc |-> "return"]),
                                       CoalitionFrame(<< >>, 0))]
         ELSE Return(~rv))

\* the step whose loop does not advance after a recursive call that found
\* nothing
Step_can_form_blocking_coalition_recursive_stuck ==
    /\ step_phase = "running"
    /\ stack # << >>
    /\ Top.fn = "can_form_blocking_coalition_recursive"
    /\ LET f == Top
           coalition_size == Len(f.coalition)
           temp_coalition == IF f.coalition = << >> THEN Ascending(0, k - 1) ELSE f.coalition
       IN  StepTo(
             IF f.pc = "entry"
             THEN IF /\ coalition_size >= k
                     /\ is_valid_blocking_coalition(work, inst, temp_coalition, k)
                  THEN Return(TRUE)
                  ELSE [Here EXCEPT !.stack = WithTop([f EXCEPT !.pc = "loop"])]
             ELSE IF f.pc = "loop"
             THEN IF f.agent >= inst.num_agents THEN Return(FALSE)
                  ELSE IF \E i \in 1..coalition_size : f.coalition[i] = f.agent
                  THEN [Here EXCEPT !.stack = WithTop([f EXCEPT !.agent = @ + 1])]
                  ELSE [Here EXCEPT
                          !.stack = Append(WithTop([f EXCEPT !.pc = "called"]),
                                           CoalitionFrame(Append(f.coalition, f.agent),
                                                          f.agent + 1))]
             ELSE IF rv THEN Return(TRUE)
                  ELSE [Here EXCEPT !.stack = WithTop([f EXCEPT !.pc = "loop"])])

\* verification.c can_form_blocking_coalition_recursive
Step_can_form_blocking_coalition_recursive ==
    /\ step_phase = "running"
    /\ stack # << >>
    /\ Top.fn = "can_form_blocking_coalition_recursive"
    /\ LET f == Top
           coalition_size == Len(f.coalition)
           temp_coalition == IF f.coalition = << >> THEN Ascending(0, k - 1) ELSE f.coalition
       IN  StepTo(
             IF f.pc = "entry"
             THEN IF /\ coalition_size >= k
                     /\ is_valid_blocking_coalition(work, inst, temp_coalition, k)
                  THEN Return(TRUE)
                  ELSE [Here EXCEPT !.stack = WithTop([f EXCEPT !.pc = "loop"])]
             ELSE IF f.pc = "loop"
             THEN IF f.agent >= inst.num_agents THEN Return(FALSE)
                  ELSE IF \E i \in 1..coalition_size : f.coalition[i] = f.agent
                  THEN [Here EXCEPT !.stack = WithTop([f EXCEPT !.agent = @ + 1])]
                  ELSE [Here EXCEPT
                          !.stack = Append(WithTop([f EXCEPT !.pc = "called"]),
                                           CoalitionFrame(Append(f.coalition, f.agent),
                                                          f.agent + 1))]
             ELSE IF rv THEN Return(TRUE)
                  ELSE [Here EXCEPT !.stack = WithTop([f EXCEPT !.pc = "loop", !.agent = @ + 1])])

\* existence.c find_k_stable_matching_recursive, on the working matching
Step_find_k_stable_matching_recursive ==
    /\ step_phase = "running"
    /\ stack # << >>
    /\ Top.fn = "find_k_stable_matching_recursive"
    /\ LET f == Top
           Recurse(frame, matching) ==
               [Here EXCEPT !.work = matching,
                            !.stack = Append(WithTop(frame), SearchFrame(f.agent_index + 1, matching)),
                            !.deepest = IF f.agent_index + 1 > @ THEN f.agent_index + 1 ELSE @]
       IN  StepTo(
             IF f.pc = "entry"
             THEN IF f.agent_index >= inst.num_agents
                  THEN [Here EXCEPT !.stack = Append(WithTop([f EXCEPT !.pc = "return"]),
                                                     DirectFrame)]
                  ELSE IF ~is_promising_partial_matching(work, inst, k, f.agent_index)
                  THEN Return(FALSE)
                  ELSE IF work.pairs[f.agent_index] # UNMATCHED
                  THEN Recurse([f EXCEPT !.pc = "return"], work)
                  ELSE [Here EXCEPT
                          !.stack = WithTop([f EXCEPT
                                               !.pc = "loop",
                                               !.partners = PotentialPartners(inst, work,
                                                                              f.agent_index)])]
             ELSE IF f.pc = "loop"
             THEN IF f.i > Len(f.partners)
                  THEN IF inst.model = HOUSE_ALLOCATION \/ inst.model = ROOMMATES
                       THEN Recurse([f EXCEPT !.pc = "return"], work)
                       ELSE Return(FALSE)
                  ELSE LET partner == f.partners[f.i]
                           tried == SetPairs(work, f.agent_index, partner, partner, f.agent_index)
                       IN  IF is_partial_matching_valid(tried, inst, f.agent_index)
                           THEN Recurse([f EXCEPT !.pc = "tried"], tried)
                           ELSE [Here EXCEPT !.work = tried,
                                             !.stack = WithTop([f EXCEPT !.pc = "undo"])]
             ELSE IF f.pc = "tried" /\ rv
             THEN Return(TRUE)
             ELSE IF f.pc = "tried" \/ f.pc = "undo"
             THEN [Here EXCEPT
                     !.work = SetPairs(work, f.agent_index, UNMATCHED,
                                       f.partners[f.i], UNMATCHED),
                     !.stack = WithTop([f EXCEPT !.pc = "loop", !.i = @ + 1])]
             ELSE Return(rv))

\* the step that leaves the tentative pair in place after counting
Step_count_k_stable_matchings_recursive_no_undo ==
    /\ step_phase = "running"
    /\ stack # << >>
    /\ Top.fn = "count_k_stable_matchings_recursive"
    /\ LET f == Top
           n == inst.num_agents
           Recurse(frame, matching) ==
               [Here EXCEPT !.work = matching,
                            !.stack = Append(WithTop(frame),
                                             CountFrame(f.agent_index + 1, matching))]
       IN  StepTo(
             IF f.pc = "entry"
             THEN IF f.agent_index >= n
                  THEN [Here EXCEPT !.stack = Append(WithTop([f EXCEPT !.pc = "leaf"]),
                                                     DirectFrame)]
                  ELSE IF work.pairs[f.agent_index] # UNMATCHED
                  THEN Recurse([f EXCEPT !.pc = "return"], work)
                  ELSE [Here EXCEPT !.stack = WithTop([f EXCEPT !.pc = "loop"])]
             ELSE IF f.pc = "leaf"
             THEN Return(IF rv THEN 1 ELSE 0)
             ELSE IF f.pc = "loop"
             THEN IF f.partner >= n
                  THEN IF inst.model = HOUSE_ALLOCATION \/ inst.model = ROOMMATES
                       THEN Recurse([f EXCEPT !.pc = "unmatched"], work)
                       ELSE Return(f.count)
                  ELSE IF \/ f.partner = f.agent_index
                          \/ work.pairs[f.partner] # UNMATCHED
                          \/ SameGenderByHalf(inst, f.agent_index, f.partner)
                  THEN [Here EXCEPT !.stack = WithTop([f EXCEPT !.partner = @ + 1])]
                  ELSE Recurse([f EXCEPT !.pc = "counted"],
                               SetPairs(work, f.agent_index, f.partner,
                                        f.partner, f.agent_index))
             ELSE IF f.pc = "counted"
             THEN [Here EXCEPT
                     !.work = work,
                     !.stack = WithTop([f EXCEPT !.pc = "loop", !.partner = @ + 1,
                                                 !.count = @ + rv])]
             ELSE IF f.pc = "unmatched"
             THEN Return(f.count + rv)
             ELSE Return(rv))

\* existence.c count_k_stable_matchings_recursive, working on work; the
\* value a frame returns is its count
Step_count_k_stable_matchings_recursive ==
    /\ step_phase = "running"
    /\ stack # << >>
    /\ Top.fn = "count_k_stable_matchings_recursive"
    /\ LET f == Top
           n == inst.num_agents
           Recurse(frame, matching) ==
               [Here EXCEPT !.work = matching,
                            !.stack = Append(WithTop(frame),
                                             CountFrame(f.agent_index + 1, matching))]
       IN  StepTo(
             IF f.pc = "entry"
             THEN IF f.agent_index >= n
                  THEN [Here EXCEPT !.stack = Append(WithTop([f EXCEPT !.pc = "leaf"]),
                                                     DirectFrame)]
                  ELSE IF work.pairs[f.agent_index] # UNMATCHED
                  THEN Recurse([f EXCEPT !.pc = "return"], work)
                  ELSE [Here EXCEPT !.stack = WithTop([f EXCEPT !.pc = "loop"])]
             ELSE IF f.pc = "leaf"
             THEN Return(IF rv THEN 1 ELSE 0)
             ELSE IF f.pc = "loop"
             THEN IF f.partner >= n
                  THEN IF inst.model = HOUSE_ALLOCATION \/ inst.model = ROOMMATES
                       THEN Recurse([f EXCEPT !.pc = "unmatched"], work)
                       ELSE Return(f.count)
                  ELSE IF \/ f.partner = f.agent_index
                          \/ work.pairs[f.partner] # UNMATCHED
                          \/ SameGenderByHalf(inst, f.agent_index, f.partner)
                  THEN [Here EXCEPT !.stack = WithTop([f EXCEPT !.partner = @ + 1])]
                  ELSE Recurse([f EXCEPT !.pc = "counted"],
                               SetPairs(work, f.agent_index, f.partner,
                                        f.partner, f.agent_index))
             ELSE IF f.pc = "counted"
             THEN [Here EXCEPT
                     !.work = SetPairs(work, f.agent_index, UNMATCHED, f.partner, UNMATCHED),
                     !.stack = WithTop([f EXCEPT !.pc = "loop", !.partner = @ + 1,
                                                 !.count = @ + rv])]
             ELSE IF f.pc = "unmatched"
             THEN Return(f.count + rv)
             ELSE Return(rv))

\* the caller calls count_k_stable_matchings(inst, kk) (existence.c lines
\* 411-435)
Call_count_k_stable_matchings ==
    /\ step_phase = "idle"
    /\ \E kk \in KValues(inst) :
          LET matching == create_matching(inst.num_agents, inst.model)
              rejected == kk <= 0 \/ kk > inst.num_agents
          IN  /\ op' = "count_k_stable_matchings"
              /\ k' = kk
              /\ stack' = IF rejected THEN << >> ELSE <<CountFrame(0, matching)>>
              /\ work' = IF rejected THEN NullMatching ELSE matching
    /\ step_phase' = "running"
    /\ rv' = 0
    /\ deepest' = 0 - 1
    /\ UNCHANGED <<inst, mu, ret, out, alloc_vars, kernel_vars, gen_vars, enum_vars>>

\* count_k_stable_matchings returns its count to the caller
Return_count_k_stable_matchings ==
    /\ step_phase = "running"
    /\ stack = << >>
    /\ op = "count_k_stable_matchings"
    /\ step_phase' = "returned"
    /\ val' = rv
    /\ UNCHANGED <<core_vars, stack, work, rv, deepest, mu_alt, pref_args,
                   alloc_vars, gen_vars, enum_vars>>

\* the entry point returns to the caller
Return_existence_entry ==
    /\ step_phase = "running"
    /\ stack = << >>
    /\ op # "count_k_stable_matchings"
    /\ step_phase' = "returned"
    /\ ret' = rv
    /\ UNCHANGED <<inst, op, mu, k, out, stack, work, rv, deepest,
                   alloc_vars, kernel_vars, gen_vars, enum_vars>>

NextSteps ==
    \/ Call_existence_entry
    \/ Step_k_stable_matching_exists_small_k
    \/ Step_k_stable_matching_exists_large_k
    \/ Step_is_k_stable_direct
    \/ Step_can_form_blocking_coalition_recursive
    \/ Step_find_k_stable_matching_recursive
    \/ Return_existence_entry
    \/ Call_count_k_stable_matchings
    \/ Step_count_k_stable_matchings_recursive
    \/ Return_count_k_stable_matchings

\* the call runs on one thread, which takes its next step whenever it has one
SpecSteps == InitSteps /\ [][NextSteps]_vars /\ WF_vars(NextSteps)

Next ==
    \/ Call_is_k_stable
    \/ Call_is_k_stable_direct
    \/ Call_k_stable_matching_exists
    \/ Call_find_k_stable_matching
    \/ Call_k_stable_matching_exists_efficient
    \/ Call_k_stable_matching_exists_small_k
    \/ Call_k_stable_matching_exists_large_k

Spec == Init /\ [][Next]_vars


\* ------------------------------------------------------ heap bookkeeping
NextHeap == NextAlloc

\* the calls of SpecAlloc on the instances of the stepwise runs, for the
\* checks that follow every block of the heap
SpecHeap == InitSteps /\ [][NextHeap]_vars

\* ------------------------------------- the unused coalition shortcut
RECURSIVE ObviousPairing(_, _, _, _, _)
\* verification.c has_obvious_blocking_coalition, lines 202-221: the greedy
\* pairing of the unmatched agents from position i on; the result is
\* blocking_pairs
ObviousPairing(instance, unmatched_agents, i, used, blocking_pairs) ==
    LET unmatched_count == Len(unmatched_agents)
    IN  IF i > unmatched_count THEN blocking_pairs
        ELSE IF used[i]
        THEN ObviousPairing(instance, unmatched_agents, i + 1, used, blocking_pairs)
        ELSE LET ok == { j \in (i + 1)..unmatched_count :
                           /\ ~used[j]
                           /\ agent_prefers(instance.agents[unmatched_agents[i]],
                                            unmatched_agents[j], UNMATCHED)
                           /\ agent_prefers(instance.agents[unmatched_agents[j]],
                                            unmatched_agents[i], UNMATCHED) }
             IN  IF ok = {}
                 THEN ObviousPairing(instance, unmatched_agents, i + 1, used, blocking_pairs)
                 ELSE LET j == CHOOSE x \in ok : \A y \in ok : x <= y
                      IN  ObviousPairing(instance, unmatched_agents, i + 1,
                                         [used EXCEPT ![i] = TRUE, ![j] = TRUE],
                                         blocking_pairs + 1)

RECURSIVE UnmatchedFrom(_, _, _)
\* verification.c has_obvious_blocking_coalition, lines 188-193: the
\* unmatched agents i .. n-1 in ascending order
UnmatchedFrom(matching, instance, i) ==
    IF i >= instance.num_agents THEN << >>
    ELSE (IF matching.pairs[i] = UNMATCHED THEN <<i>> ELSE << >>)
         \o UnmatchedFrom(matching, instance, i + 1)

\* verification.c has_obvious_blocking_coalition (a static function that no
\* function of the library calls)
has_obvious_blocking_coalition(matching, instance, kk) ==
    LET unmatched_agents == UnmatchedFrom(matching, instance, 0)
        unmatched_count == Len(unmatched_agents)
    IN  /\ unmatched_count >= kk
        /\ 2 * ObviousPairing(instance, unmatched_agents, 1,
                              [x \in 1..unmatched_count |-> FALSE], 0) >= kk

\* ------------------------------------------------------- regime dispatch
\* the instance of a model whose agent i lists its eligible partners rotated
\* by i (when spread) or all in the same order
DispatchInstance(model, n, m, spread, rev) ==
    Instance(model, n, m,
             [i \in 0..(n - 1) |->
                 IF spread /\ Len(Eligible(model, n, m, i)) > 0
                 THEN i % Len(Eligible(model, n, m, i)) ELSE 0],
             rev, 0 - 1)

\* instances of 1 .. MaxDispatchN agents, large enough for k/n <= 0.1
DispatchInstances ==
    UNION { { DispatchInstance(HOUSE_ALLOCATION, n, 0, spread, rev),
              DispatchInstance(ROOMMATES, n, 0, spread, rev),
              DispatchInstance(MARRIAGE, n, (n + 1) \div 2, spread, rev) }
          : n \in 1..MaxDispatchN, spread \in BOOLEAN, rev \in BOOLEAN }

InitDispatch ==
    /\ inst \in DispatchInstances
    /\ NoCall
    /\ GenInit
    /\ EnumInit
    /\ StepInit

NextDispatch == Call_k_stable_matching_exists

\* the callers of k_stable_matching_exists on instances of every regime
SpecDispatch == InitDispatch /\ [][NextDispatch]_vars

\* ------------------------------------------------------------------ checks
TypeOK ==
    /\ inst \in Instances
    /\ ret \in BOOLEAN
    /\ k \in Int

\* the call in the state was made with 1 <= k <= n
ValidK == 1 <= k /\ k <= inst.num_agents

\* some well-formed alternative improves at least kk agents over matching
BlockedByAlternative(matching, instance, kk) ==
    \E alt \in WellFormedMatchings(instance) :
        count_improved_agents(matching, alt, instance) >= kk

\* C1: for a well-formed mu and 1 <= k <= n, is_k_stable returns true exactly
\* when no well-formed alternative matching improves at least k agents.
C1_VerifierDecidesKStability ==
    (op = "is_k_stable" /\ is_valid_matching(mu, inst) /\ ValidK)
        => (ret <=> ~BlockedByAlternative(mu, inst, k))

\* C2: for a well-formed mu, both verifier entry points return true at k = 1.
C2_EveryMatchingIsOneStable ==
    (op \in {"is_k_stable", "is_k_stable_direct"} /\ is_valid_matching(mu, inst) /\ k = 1)
        => ret

\* C3: a matching the verifier accepts at k (1 <= k <= n) is accepted at
\* every k2 with k <= k2 <= n, by is_k_stable and by is_k_stable_direct.
C3_VerifierMonotoneInK ==
    /\ (op = "is_k_stable" /\ ValidK /\ ret)
          => \A k2 \in k..inst.num_agents : is_k_stable(mu, inst, k2)
    /\ (op = "is_k_stable_direct" /\ ValidK /\ ret)
          => \A k2 \in k..inst.num_agents : is_k_stable_direct(mu, inst, k2)

\* C3 witness: is_k_stable accepted a well-formed matching at a k below n
\* that it rejects at k - 1
C3_Witness ==
    /\ op = "is_k_stable"
    /\ ret
    /\ 2 <= k /\ k < inst.num_agents
    /\ is_valid_matching(mu, inst)
    /\ ~is_k_stable(mu, inst, k - 1)

\* C4: k_stable_matching_exists(instance, 1) returns true for every instance.
C4_ExistsAtOne ==
    (op = "k_stable_matching_exists" /\ k = 1) => ret

\* C6: k_stable_matching_exists returns true exactly when
\* find_k_stable_matching returns a matching.
C6_EntryPointsAgree ==
    /\ op = "k_stable_matching_exists"
          => (ret <=> find_k_stable_matching(inst, k) # NullMatching)
    /\ op = "find_k_stable_matching"
          => ((out # NullMatching) <=> k_stable_matching_exists(inst, k))

\* C7: when k_stable_matching_exists or k_stable_matching_exists_efficient
\* returns true, some well-formed matching is accepted by is_k_stable at k.
C7_ExistenceSound ==
    (op \in {"k_stable_matching_exists", "k_stable_matching_exists_efficient"} /\ ret)
        => \E m \in WellFormedMatchings(inst) : is_k_stable(m, inst, k)

\* C8: for 1 <= k <= n, k_stable_matching_exists returns false only when no
\* well-formed matching is accepted by is_k_stable at k.
C8_ExistenceComplete ==
    (op = "k_stable_matching_exists" /\ ValidK /\ ~ret)
        => ~\E m \in WellFormedMatchings(inst) : is_k_stable(m, inst, k)

\* C9: for k <= 0 or k > n, is_k_stable, is_k_stable_direct and
\* k_stable_matching_exists return false and find_k_stable_matching returns
\* no matching.
C9_OutOfRangeKRejected ==
    (~ValidK /\ op \in {"is_k_stable", "is_k_stable_direct", "k_stable_matching_exists",
                        "find_k_stable_matching"})
        => (~ret /\ out = NullMatching)

\* C10: is_k_stable returns false when mu is not well-formed for the
\* instance or mu.num_agents differs from the instance's, for every k.
C10_MalformedMatchingRejected ==
    (op = "is_k_stable" /\ mu # NullMatching
        /\ (~is_valid_matching(mu, inst) \/ mu.num_agents # inst.num_agents))
        => ~ret

\* an allocation of the call in the state failed
AllocationFailed == fail_at >= 0 /\ heap_after < 0

\* the calls that were made with every allocation succeeding return what the
\* operators without allocations return
AllocFreeAgrees ==
    (op # "none" /\ fail_at < 0) =>
        /\ op = "is_k_stable" => ret = is_k_stable(mu, inst, k)
        /\ op = "is_k_stable_direct" => ret = is_k_stable_direct(mu, inst, k)
        /\ op = "k_stable_matching_exists" => ret = k_stable_matching_exists(inst, k)
        /\ op = "find_k_stable_matching" => out = find_k_stable_matching(inst, k)

\* C11: when an allocation made during is_k_stable, is_k_stable_direct,
\* k_stable_matching_exists or find_k_stable_matching fails, the call returns
\* false (find_k_stable_matching: no matching).
C11_AllocationFailureReported ==
    (op \in {"is_k_stable", "is_k_stable_direct", "k_stable_matching_exists",
             "find_k_stable_matching"} /\ AllocationFailed)
        => (~ret /\ out = NullMatching)

\* the data-model invariants as C12 states them: same n, every assigned value
\* in range, symmetry for marriage and roommates only, gender respect for
\* marriage, uniqueness of objects for house allocation
StatedWellFormed(matching, instance) ==
    /\ matching.num_agents = instance.num_agents
    /\ \A i \in 0..(matching.num_agents - 1) :
          matching.pairs[i] # UNMATCHED =>
              (0 <= matching.pairs[i] /\ matching.pairs[i] < matching.num_agents)
    /\ instance.model \in {MARRIAGE, ROOMMATES} =>
          \A i \in 0..(matching.num_agents - 1) :
              matching.pairs[i] # UNMATCHED => matching.pairs[matching.pairs[i]] = i
    /\ instance.model = MARRIAGE =>
          \A i \in 0..(matching.num_agents - 1) :
              matching.pairs[i] # UNMATCHED =>
                  ((i < instance.num_men) # (matching.pairs[i] < instance.num_men))
    /\ instance.model = HOUSE_ALLOCATION =>
          \A i, j \in 0..(matching.num_agents - 1) :
              (matching.pairs[i] # UNMATCHED /\ matching.pairs[i] = matching.pairs[j]) => i = j

\* C12: is_valid_matching returns true exactly when mu has the instance's n
\* and satisfies the invariants of the instance's model, which for house
\* allocation are bounds and uniqueness only (no symmetry).
C12_ValidityIsTheModelInvariants ==
    (op = "is_valid_matching" /\ mu # NullMatching)
        => (ret <=> StatedWellFormed(mu, inst))

\* C13: count_improved_agents returns the number of agents i for which
\* agent_prefers(agent i, mu'(i), mu(i)) holds.
C13_CountIsNumberOfPreferring ==
    op = "count_improved_agents"
        => val = Cardinality({ i \in 0..(inst.num_agents - 1) :
                    agent_prefers(inst.agents[i], mu_alt.pairs[i], mu.pairs[i]) })

\* the rank C14 gives a partner: its position when listed, the list length
\* for the unmatched sentinel, and below that when not listed
StatedRank(agent, x) ==
    IF x = UNMATCHED THEN agent.num_preferences
    ELSE IF get_agent_rank(agent, x) = NOT_FOUND THEN agent.num_preferences + 1
    ELSE get_agent_rank(agent, x)

\* C14: agent_prefers(agent, a, b) is true iff rank(a) < rank(b), where
\* being unmatched ranks after every listed partner and before every
\* partner that is not listed.
C14_PrefersIsRankOrder ==
    op = "agent_prefers"
        => (ret <=> StatedRank(inst.agents[pref_args.agent], pref_args.a)
                      < StatedRank(inst.agents[pref_args.agent], pref_args.b))

\* the instance is a house allocation in which every agent lists all n houses
CompleteHouseLists(instance) ==
    /\ instance.model = HOUSE_ALLOCATION
    /\ \A i \in 0..(instance.num_agents - 1) :
          instance.agents[i].num_preferences = instance.num_agents

\* agent i holds the object at rank 0 of its own list
HoldsTop(matching, instance, i) ==
    /\ matching.pairs[i] # UNMATCHED
    /\ get_agent_rank(instance.agents[i], matching.pairs[i]) = 0

\* is_k_stable was called at k = n with a matching of a house allocation
\* with complete lists, and accepted it
AcceptedAtN ==
    /\ op = "is_k_stable"
    /\ CompleteHouseLists(inst)
    /\ mu # NullMatching
    /\ StatedWellFormed(mu, inst)
    /\ k = inst.num_agents
    /\ ret

C16_OddRoommatesLeaveOneUnmatched ==
    (op = "is_valid_matching" /\ inst.model = ROOMMATES /\ inst.num_agents % 2 = 1 /\ ret)
        => \E i \in 0..(inst.num_agents - 1) : mu.pairs[i] = UNMATCHED

\* what the generator call args returns as the first call of a process
FirstCallResult(args) ==
    IF args.fn = "generate_random_house_allocation"
    THEN generate_random_house_allocation(args.n, args.seed, Uint32(1)).instance
    ELSE IF args.fn = "generate_random_marriage"
    THEN generate_random_marriage(args.n, args.w, args.seed, Uint32(1)).instance
    ELSE generate_random_roommates(args.n, args.seed, Uint32(1)).instance

\* C17: the instance a generator returns is a function of its size
\* arguments and seed alone: whatever generator calls were made before, it is
\* the instance the same call returns as the first call of a process.
C17_GeneratorsDeterministic ==
    gen_args.fn # "none" => gen_out = FirstCallResult(gen_args)

\* C17 witness: a generator called after other generator calls returned an
\* instance in which some list was shuffled out of ascending order
C17_Witness ==
    /\ gen_calls >= 2
    /\ gen_out # NullInstance
    /\ gen_out.num_agents = 3
    /\ \E i \in 0..2 : gen_out.agents[i].num_preferences >= 2
                       /\ gen_out.agents[i].preferences[0] > gen_out.agents[i].preferences[1]

RECURSIVE Factorial(_)
Factorial(n) == IF n <= 1 THEN 1 ELSE n * Factorial(n - 1)

\* the orders of the objects 0 .. n-1, as C arrays
ObjectOrders(n) ==
    { f \in [0..(n - 1) -> 0..(n - 1)] : \A i, j \in 0..(n - 1) : f[i] = f[j] => i = j }

\* every complete strict house-allocation profile of n agents
AllProfiles(n) ==
    { [model |-> HOUSE_ALLOCATION, num_agents |-> n, num_men |-> 0,
       agents |-> [a \in 0..(n - 1) |->
                      [id |-> a, preferences |-> p[a], num_preferences |-> n]]] :
      p \in [0..(n - 1) -> ObjectOrders(n)] }

\* the profiles the existence engine was called with in the current run
HandedProfiles == { engine_calls[j].instance : j \in 1..Len(engine_calls) }

\* C18: for n in {2, 3} the enumerator hands each of the (n!)^n profiles to
\* the existence engine exactly once: at every point of a run the profiles
\* handed so far are pairwise different complete profiles, each was passed
\* with k = 1, 2, .., n in turn, total_instances counts them, and when the
\* enumeration returns total_instances = (n!)^n and no profile is missing
C18_EnumeratorHandsEveryProfileOnce ==
    enum_phase # "idle" =>
        /\ enum_n \in {2, 3}
        /\ Len(engine_calls) = enum_n * total_instances
        /\ \A j \in 1..Len(engine_calls) :
              /\ engine_calls[j].k = ((j - 1) % enum_n) + 1
              /\ engine_calls[j].instance = engine_calls[j - ((j - 1) % enum_n)].instance
        /\ Cardinality(HandedProfiles) = total_instances
        /\ HandedProfiles \subseteq AllProfiles(enum_n)
        /\ enum_phase = "returned" =>
              /\ total_instances = Factorial(enum_n) ^ enum_n
              /\ HandedProfiles = AllProfiles(enum_n)

C18_Witness ==
    /\ enum_phase = "returned"
    /\ enum_n = 3
    /\ total_instances = 216
    /\ Len(engine_calls) = 648

\* C19: over the exhaustive corpus of n in {2, 3}, the number of profiles
\* for which k_stable_matching_exists answers true does not increase as k
\* goes from 1 to n
C19_ExistenceCountNonIncreasing ==
    enum_phase = "returned" =>
        \A k1, k2 \in 1..enum_n : k1 <= k2 => k_stable_count[k1] >= k_stable_count[k2]

\* the stepwise run returns what the entry point's operator returns
StepwiseAgrees ==
    step_phase = "returned" =>
        IF op = "count_k_stable_matchings" THEN val = count_k_stable_matchings(inst, k)
        ELSE ret = IF op = "k_stable_matching_exists" THEN k_stable_matching_exists(inst, k)
                   ELSE IF op = "k_stable_matching_exists_small_k"
                   THEN k_stable_matching_exists_small_k(inst, k)
                   ELSE k_stable_matching_exists_large_k(inst, k)

\* the frames of fn on the call stack, outermost first
FramesOf(fn) == SelectSeq(stack, LAMBDA f : f.fn = fn)

\* every recursive call of the pruning search passes the next agent index,
\* up to the leaf at index n; every recursive call of the coalition search
\* passes a larger start_agent and a coalition longer by one
IndicesAscend ==
    /\ LET s == FramesOf("find_k_stable_matching_recursive")
       IN  \A j \in 1..Len(s) : s[j].agent_index = j - 1 /\ s[j].agent_index <= inst.num_agents
    /\ LET c == FramesOf("can_form_blocking_coalition_recursive")
       IN  \A j \in 1..Len(c) :
              /\ Len(c[j].coalition) = j - 1
              /\ c[j].start_agent <= inst.num_agents
              /\ j > 1 => c[j].start_agent > c[j - 1].start_agent

\* C20: every call of an existence strategy (small-k, large-k, pruning
\* search), the verifier's coalition search included, terminates and returns
\* a decision, and in the pruning search every recursive call is entered
\* with the next agent index, up to the leaf at index n
C20_SearchesTerminate ==
    /\ <>(step_phase = "returned")
    /\ []IndicesAscend

C20_Witness ==
    /\ step_phase = "returned"
    /\ inst.num_agents = 3
    /\ deepest = 3
    /\ ret

\* every agent lists all its eligible partners
CompleteLists(instance) ==
    \A i \in 0..(instance.num_agents - 1) :
        instance.agents[i].num_preferences =
            Len(Eligible(instance.model, instance.num_agents, instance.num_men, i))

\* the matchings of an instance that satisfy the stated data-model
\* invariants (in house allocation every injective assignment)
StatedAlternatives(instance) ==
    { m \in MatchingsOver(instance.num_agents, instance.model, instance.num_agents,
                          UNMATCHED..(instance.num_agents - 1)) :
        StatedWellFormed(m, instance) }

\* C21: on an instance with complete lists, for a matching mu of the
\* instance's size and 1 <= k <= n, if some well-formed alternative mu' has
\* count_improved_agents(mu, mu', instance) >= k then is_k_stable and
\* is_k_stable_direct return false.
C21_VerifierCompleteOnCompleteLists ==
    (/\ op \in {"is_k_stable", "is_k_stable_direct"}
     /\ mu # NullMatching
     /\ mu.num_agents = inst.num_agents
     /\ CompleteLists(inst)
     /\ ValidK
     /\ \E alt \in StatedAlternatives(inst) : count_improved_agents(mu, alt, inst) >= k)
        => ~ret

\* C22: for 1 <= k <= n, k_stable_matching_exists returns the answer of the
\* small-k routine when 10k <= n, of the large-k routine when 5k >= 4n and of
\* the pruning search otherwise, and no (n, k) is in both of the first two
\* ranges.
C22_RegimeDispatch ==
    (op = "k_stable_matching_exists" /\ ValidK) =>
        /\ ~(10 * k <= inst.num_agents /\ 5 * k >= 4 * inst.num_agents)
        /\ 10 * k <= inst.num_agents => ret = k_stable_matching_exists_small_k(inst, k)
        /\ 5 * k >= 4 * inst.num_agents => ret = k_stable_matching_exists_large_k(inst, k)
        /\ (10 * k > inst.num_agents /\ 5 * k < 4 * inst.num_agents)
               => ret = find_k_stable_with_pruning(inst, k)

\* a call in the small-k range whose answer differs from what the two other
\* routines would have given
C22_Witness ==
    /\ op = "k_stable_matching_exists"
    /\ ValidK
    /\ 10 * k <= inst.num_agents
    /\ ret
    /\ ~k_stable_matching_exists_large_k(inst, k)
    /\ ~find_k_stable_with_pruning(inst, k)

\* the order in which the large-k routine processes the agents of inst
agent_order_of(instance) ==
    SortByPickiness(instance, [i \in 0..(instance.num_agents - 1) |-> i], 0, 1)

\* C23: the large-k routine processes the agents by ascending list length
\* and, among agents with lists of equal length, by ascending id.
C23_PickinessOrder ==
    op = "k_stable_matching_exists_large_k" =>
        LET agent_order == agent_order_of(inst)
        IN  \A p, q \in 0..(inst.num_agents - 1) :
                p < q =>
                    \/ inst.agents[agent_order[p]].num_preferences <
                           inst.agents[agent_order[q]].num_preferences
                    \/ /\ inst.agents[agent_order[p]].num_preferences =
                              inst.agents[agent_order[q]].num_preferences
                       /\ agent_order[p] < agent_order[q]

\* C24: whenever at least k agents are unmatched under mu and the greedy
\* pairing of the unmatched agents pairs at least k of them, is_k_stable and
\* is_k_stable_direct report mu as not k-stable.
C24_UnmatchedCoalitionReported ==
    (/\ op \in {"is_k_stable", "is_k_stable_direct"}
     /\ mu # NullMatching
     /\ mu.num_agents = inst.num_agents
     /\ has_obvious_blocking_coalition(mu, inst, k))
        => ~ret

\* a call with a valid k >= 2 on a matching whose unmatched agents pair up
C24_Witness ==
    /\ op \in {"is_k_stable", "is_k_stable_direct"}
    /\ mu # NullMatching
    /\ mu.num_agents = inst.num_agents
    /\ k >= 2
    /\ ValidK
    /\ has_obvious_blocking_coalition(mu, inst, k)
    /\ ~ret

\* the entry points of the existence engine
ExistenceEntries ==
    {"k_stable_matching_exists", "find_k_stable_matching", "k_stable_matching_exists_efficient",
     "k_stable_matching_exists_small_k", "k_stable_matching_exists_large_k"}

\* C25: on a marriage instance with m men the gender test of the existence
\* engine treats agent i as a man exactly when i < m: it excludes a pair
\* exactly when both agents are men or both are women.
C25_EngineGenderTest ==
    (op \in ExistenceEntries /\ ValidK /\ inst.model = MARRIAGE) =>
        \A a, b \in 0..(inst.num_agents - 1) :
            SameGenderByHalf(inst, a, b) <=> ((a < inst.num_men) <=> (b < inst.num_men))

\* C26: when is_k_stable, is_k_stable_direct, k_stable_matching_exists or
\* find_k_stable_matching returns, every block allocated during the call has
\* been released exactly once, except the witness matching handed to the
\* caller; also when a coalition was found and when an allocation failed.
C26_NoLeaks ==
    op \in {"is_k_stable", "is_k_stable_direct", "k_stable_matching_exists",
            "find_k_stable_matching"} =>
        /\ ~heap_blocks.bad
        /\ heap_blocks.live = (IF out # NullMatching THEN {heap_blocks.handed} ELSE {})

\* a verifier call that returned early on a found coalition after one of
\* its allocations had failed, and an engine call whose allocation failed
C26_Witness ==
    \/ /\ op \in {"is_k_stable", "is_k_stable_direct"}
       /\ AllocationFailed
       /\ ~ret
       /\ \E alt \in StatedAlternatives(inst) : count_improved_agents(mu, alt, inst) >= k
    \/ /\ op \in {"k_stable_matching_exists", "find_k_stable_matching"}
       /\ AllocationFailed

\* agent i could do better on its own: it is unmatched and lists someone, or
\* its partner is on its list but not first
Improvable(matching, instance, i) ==
    LET partner == matching.pairs[i]
        list == instance.agents[i]
    IN  \/ partner = UNMATCHED /\ list.num_preferences > 0
        \/ /\ partner # UNMATCHED
           /\ \E r \in 1..(list.num_preferences - 1) : list.preferences[r] = partner

C29_EngineHandsWellFormedMatchings ==
    (step_phase = "running" /\ stack # << >> /\ Top = DirectFrame) =>
        is_valid_matching(work, inst)

\* the frame on top of the stack returns in this step: find_k_stable_matching_recursive
\* with false, or count_k_stable_matchings_recursive with any count
SearchReturns ==
    /\ step_phase = "running"
    /\ stack # << >>
    /\ stack' = Popped
    /\ \/ Top.fn = "find_k_stable_matching_recursive" /\ rv' = FALSE
       \/ Top.fn = "count_k_stable_matchings_recursive"

\* a step of the verifier, which works on the matching it was handed
VerifierSteps ==
    /\ step_phase = "running"
    /\ stack # << >>
    /\ Top.fn \in {"is_k_stable_direct", "can_form_blocking_coalition_recursive"}

\* C30: whenever find_k_stable_matching_recursive returns false, and whenever
\* count_k_stable_matchings_recursive returns, the working matching is what
\* it was when that call was entered; the verifier never changes the
\* matching it is handed, and no step changes the caller's instance or
\* matching.
C30_TentativeAssignmentsUndone ==
    [][/\ SearchReturns => work' = Top.entered_with
       /\ VerifierSteps => work' = work
       /\ inst' = inst
       /\ mu' = mu]_vars

\* the counting search is back in its loop after a pair it tried was counted
\* and undone
C30_Witness ==
    /\ step_phase = "running"
    /\ stack # << >>
    /\ Top.fn = "count_k_stable_matchings_recursive"
    /\ Top.pc = "loop"
    /\ Top.partner > 0
    /\ Top.count > 0
    /\ work = Top.entered_with

====
